---- MODULE Spec2Model ----
(***************************************************************************)
(* A model of the fallible collections of the `fallacy` crate: the         *)
(* growable buffer `Vec<T, A>` of src/src/vec.rs and the clone-on-write    *)
(* wrapper `Cow` of src/src/borrow.rs.                                     *)
(*                                                                         *)
(* The buffer is {len, cap, buf}: buf has one entry per allocated slot,    *)
(* an element payload or Uninit.  `drops` lists what the last operation    *)
(* destroyed and `last` records the operation, its arguments and what it   *)
(* returned.  The allocator is an external capability: each call to it     *)
(* nondeterministically succeeds or fails.                                 *)
(***************************************************************************)
EXTENDS Integers, Sequences, FiniteSets, TLC

\* ---------------------------------------------------------------- bounds
MaxLen == 3        \* longest buffer built
MaxPush == 5       \* longest buffer built by pushes alone
MaxAdd == 2        \* largest ordinary `additional` tried
MaxSlice == 2      \* longest slice handed to the slice operations
MaxLong == 5       \* longest slice handed over in SliceSpec
MaxDrain == 4      \* longest buffer drained
Vals == {1, 2}     \* element payloads

MaxStr == 2        \* longest borrowed string
MaxRefs == 2       \* borrowed strings the caller holds
MaxCalls == 3      \* try_to_owned calls followed on one wrapper
MaxSrc == 3        \* longest value duplicated ("abc")
MaxTxt == 6        \* longest String built by appending
MaxText == 3       \* longest text converted, in chars
MaxFailCall == 3   \* allocator calls of one conversion that may be failed
MaxItems == 3      \* literal pieces and arguments of one format template
MaxBlocks == 3     \* blocks the allocator can hand out
Chars == {1, 2}    \* the bytes strings are made of

\* isize::MAX, the largest allocation in bytes, scaled down
IsizeMax == 16

\* usize::MAX == 2 * isize::MAX + 1
UsizeMax == 2 * IsizeMax + 1

\* size_of::<T>() of the buffer's element type
ElemSize == 2

\* the largest capacity of a Vec<T>: isize::MAX / size_of::<T>()
MaxAlloc == IsizeMax \div ElemSize

\* RawVec::MIN_NON_ZERO_CAP: 8 for one-byte elements, 4 up to 1024 bytes
MinNonZeroCapOf(size) == IF size = 1 THEN 8 ELSE IF size <= 1024 THEN 4 ELSE 1

MinNonZeroCap == MinNonZeroCapOf(ElemSize)

VARIABLES alive, len, cap, buf, drops, last, cow, clast, hist, txt, tlast,
          heap, val, dup, klast, iter

vecVars == <<alive, len, cap, buf, drops, last>>

cowVars == <<cow, clast, hist>>

\* the byte buffer behind a String or a Vec<u8>, and its last operation
txtVars == <<txt, tlast>>

\* the allocated blocks, the value that is duplicated, its duplicate and
\* the last duplication or write
heapVars == <<heap, val, dup, klast>>

\* the Drain iterator that borrows the buffer, if one is live
iterVars == <<iter>>

vars == <<alive, len, cap, buf, drops, last, cow, clast, hist, txt, tlast,
          heap, val, dup, klast, iter>>

\* what an operation of the buffer leaves alone
notVec == <<cowVars, txtVars, heapVars, iterVars>>

\* what an operation of the clone-on-write wrapper leaves alone
notCow == <<vecVars, txtVars, heapVars, iterVars>>

\* what an operation of a String leaves alone
notTxt == <<vecVars, cowVars, heapVars, iterVars>>

\* what a duplication among the blocks leaves alone
notHeap == <<vecVars, cowVars, txtVars, iterVars>>

\* an uninitialized slot; also "no element" in the operation record
Uninit == 0

Max(a, b) == IF a >= b THEN a ELSE b
Min(a, b) == IF a <= b THEN a ELSE b

\* the initialized prefix [0, len)
Contents == SubSeq(buf, 1, len)

\* ------------------------------------------------------------ reservation
\* RawTryReserve with the new capacity recorded before the allocator answers
RawTryReserve_CommitsCap(l, c, additional, allocOk, exact, size) ==
    IF c - l >= additional
    THEN [res |-> "Ok", cap |-> c, allocs |-> 0]
    ELSE IF l + additional > UsizeMax
    THEN [res |-> "CapacityOverflow", cap |-> c, allocs |-> 0]
    ELSE LET required == l + additional
             newcap == IF exact THEN required
                       ELSE Max(MinNonZeroCapOf(size), Max(2 * c, required))
         IN  IF newcap * size > IsizeMax
             THEN [res |-> "CapacityOverflow", cap |-> c, allocs |-> 0]
             ELSE IF allocOk
             THEN [res |-> "Ok", cap |-> newcap, allocs |-> 1]
             ELSE [res |-> "AllocError", cap |-> newcap, allocs |-> 1]

\* RawTryReserve adding length and additional with wrap-around
RawTryReserve_Wraps(l, c, additional, allocOk, exact, size) ==
    IF c - l >= additional
    THEN [res |-> "Ok", cap |-> c, allocs |-> 0]
    ELSE LET required == (l + additional) % (UsizeMax + 1)
             newcap == IF exact THEN required
                       ELSE Max(MinNonZeroCapOf(size), Max(2 * c, required))
         IN  IF newcap * size > IsizeMax
             THEN [res |-> "CapacityOverflow", cap |-> c, allocs |-> 0]
             ELSE IF allocOk
             THEN [res |-> "Ok", cap |-> Max(c, newcap), allocs |-> 1]
             ELSE [res |-> "AllocError", cap |-> c, allocs |-> 1]

\* RawVec::grow_amortized / grow_exact behind try_reserve[_exact]: no-op
\* when the room is there; the required capacity is computed with overflow
\* checks, the byte size is checked against isize::MAX, and only then is the
\* allocator called
RawTryReserve(l, c, additional, allocOk, exact, size) ==
    IF c - l >= additional
    THEN [res |-> "Ok", cap |-> c, allocs |-> 0]
    ELSE IF l + additional > UsizeMax
    THEN [res |-> "CapacityOverflow", cap |-> c, allocs |-> 0]
    ELSE LET required == l + additional
             newcap == IF exact THEN required
                       ELSE Max(MinNonZeroCapOf(size), Max(2 * c, required))
         IN  IF newcap * size > IsizeMax
             THEN [res |-> "CapacityOverflow", cap |-> c, allocs |-> 0]
             ELSE IF allocOk
             THEN [res |-> "Ok", cap |-> newcap, allocs |-> 1]
             ELSE [res |-> "AllocError", cap |-> c, allocs |-> 1]

\* StdVec::try_reserve sizing the growth from `additional` alone
StdTryReserve_IgnoresLen(l, c, additional, allocOk) ==
    IF c - l >= additional
    THEN [res |-> "Ok", cap |-> c, allocs |-> 0]
    ELSE RawTryReserve(0, c, additional, allocOk, FALSE, ElemSize)

\* StdVec::try_reserve on the buffer
StdTryReserve(l, c, additional, allocOk) ==
    RawTryReserve(l, c, additional, allocOk, FALSE, ElemSize)

\* StdVec::try_reserve_exact on the buffer
StdTryReserveExact(l, c, additional, allocOk) ==
    RawTryReserve(l, c, additional, allocOk, TRUE, ElemSize)

\* AllocationError::from_try_reserve_error: each kind of TryReserveError
\* becomes the failure kind of the same name
from_try_reserve_error(kind) ==
    IF kind = "CapacityOverflow" THEN "CapacityOverflow" ELSE "AllocError"

\* the `?` after a reservation: Ok stays Ok, an error is converted
TryResult(res) == IF res = "Ok" THEN "Ok" ELSE from_try_reserve_error(res)

\* the storage after a (re)allocation to newcap slots: the old slots are
\* carried over, the new ones are uninitialized
Grown(b, newcap) ==
    [i \in 1..newcap |-> IF i <= Len(b) THEN b[i] ELSE Uninit]

\* ------------------------------------------------------- bulk-write guard
\* a production that failed instead of yielding an element
Fail == -1

\* SetLenOnDrop::new: the guard starts from the buffer's length
SetLenOnDrop_new(l) == l

\* increment_len that forgets the increment
increment_len_Forgotten(local_len, increment) == local_len

\* SetLenOnDrop::increment_len
increment_len(local_len, increment) == local_len + increment

\* Drop for SetLenOnDrop: the guard writes its local length back
SetLenOnDrop_drop(local_len) == local_len

\* the write loop with the guard incremented before the production is known
\* to have succeeded
RECURSIVE ExtendLoop_CountsFailed(_, _, _, _, _)
ExtendLoop_CountsFailed(b, ptr, local_len, prods, i) ==
    IF i > Len(prods)
    THEN [buf |-> b, local_len |-> local_len, res |-> "Ok", calls |-> i - 1]
    ELSE IF prods[i] = Fail
    THEN [buf |-> b, local_len |-> increment_len(local_len, 1),
          res |-> "AllocError", calls |-> i]
    ELSE ExtendLoop_CountsFailed([b EXCEPT ![ptr] = prods[i]], ptr + 1,
                                 increment_len(local_len, 1), prods, i + 1)

\* the write loop shared by try_extend_with and try_extend_from_slice, from
\* production i on: a failed production returns at once (the `?`), a
\* produced element is written at ptr and the guard is incremented; `calls`
\* counts the productions asked for
RECURSIVE ExtendLoop(_, _, _, _, _)
ExtendLoop(b, ptr, local_len, prods, i) ==
    IF i > Len(prods)
    THEN [buf |-> b, local_len |-> local_len, res |-> "Ok", calls |-> i - 1]
    ELSE IF prods[i] = Fail
    THEN [buf |-> b, local_len |-> local_len, res |-> "AllocError",
          calls |-> i]
    ELSE ExtendLoop([b EXCEPT ![ptr] = prods[i]], ptr + 1,
                    increment_len(local_len, 1), prods, i + 1)

\* try_extend_with starting its writes one slot too early
TryExtendWith_OffByOne(l, c, b, n, prods, allocOk) ==
    LET r == StdTryReserve(l, c, n, allocOk)
    IN  IF r.res # "Ok"
        THEN [res |-> r.res, len |-> l, cap |-> c, buf |-> b,
              allocs |-> r.allocs, at |-> "reserve", calls |-> 0]
        ELSE LET w == ExtendLoop(Grown(b, r.cap), Max(l, 1),
                                 SetLenOnDrop_new(l), prods, 1)
             IN  [res |-> w.res, len |-> SetLenOnDrop_drop(w.local_len),
                  cap |-> r.cap, buf |-> w.buf, allocs |-> r.allocs,
                  at |-> IF w.res = "Ok" THEN "" ELSE "element",
                  calls |-> w.calls]

\* Vec::try_extend_with(n, value): reserve n, then write the n productions
\* under the guard; prods[k] is what the generator yields at its k-th call
TryExtendWith(l, c, b, n, prods, allocOk) ==
    LET r == StdTryReserve(l, c, n, allocOk)
    IN  IF r.res # "Ok"
        THEN [res |-> r.res, len |-> l, cap |-> c, buf |-> b,
              allocs |-> r.allocs, at |-> "reserve", calls |-> 0]
        ELSE LET w == ExtendLoop(Grown(b, r.cap), l + 1,
                                 SetLenOnDrop_new(l), prods, 1)
             IN  [res |-> w.res, len |-> SetLenOnDrop_drop(w.local_len),
                  cap |-> r.cap, buf |-> w.buf, allocs |-> r.allocs,
                  at |-> IF w.res = "Ok" THEN "" ELSE "element",
                  calls |-> w.calls]

\* TryClone::try_clone of an element: an equal element, unless it fails
TryCloneElem(v, ok) == IF ok THEN v ELSE Fail

\* ExtendElement(value): next() clones value (and may fail), last() moves it
ExtendElement(value, n, failAt) ==
    [k \in 1..n |-> IF k < n THEN TryCloneElem(value, k # failAt) ELSE value]

\* the closure handed to try_resize_with: it yields x at its odd calls and
\* the other payload at its even ones, and fails at call failAt
Closure(x, k, failAt) ==
    IF k = failAt THEN Fail
    ELSE IF k % 2 = 1 THEN x
    ELSE CHOOSE y \in Vals : y # x

\* ExtendFunc(f): next() and last() both call f
ExtendFunc(x, n, failAt) == [k \in 1..n |-> Closure(x, k, failAt)]

\* the slots written between the storage b and the storage bNew it became
Writes(b, bNew) ==
    Cardinality({i \in 1..Len(bNew) : bNew[i] # Grown(b, Len(bNew))[i]})

\* the slots [from, to] made uninitialized
Vacate(b, from, to) ==
    [i \in 1..Len(b) |-> IF i >= from /\ i <= to THEN Uninit ELSE b[i]]

\* the record kept of the last operation: its name, result and argument,
\* the allocator calls and element writes it made, what it returned (ret)
\* and was given, and whether it reached the aborting growth path; `fail`
\* is the production that was made to fail, `at` tells a failed reservation
\* from a failed element production, `pre` is the contents before a push,
\* `other` the slice handed to a slice operation, `calls` how often the
\* closure of try_resize_with was called or how many try_clone calls
\* try_resize made, `range` and `taken` the range of
\* a released Drain and the positions it had yielded
Rec(op, res, arg, allocs, writes, ret, given, abort) ==
    [op |-> op, res |-> res, arg |-> arg, allocs |-> allocs,
     writes |-> writes, ret |-> ret, given |-> given, abort |-> abort,
     fail |-> 0, pre |-> <<>>, other |-> <<>>, calls |-> 0,
     range |-> <<>>, taken |-> <<>>,
     at |-> IF res \in {"Ok", "Some", "None"} THEN "" ELSE "reserve"]

\* ------------------------------------------------------------ the buffer
\* the `additional` counts tried: small ones, the largest capacity, usize::MAX
AddSet == (0..MaxAdd) \cup {MaxAlloc, UsizeMax}

\* the `new_len` values tried by the resize operations
NewLenSet == (0..MaxLen) \cup {UsizeMax}

\* the caller's slices handed to the slice operations
Slices == UNION {[1..n -> Vals] : n \in 0..MaxSlice}

\* the longer slices of SliceSpec: x and the other payload in turn
LongSlices ==
    {[k \in 1..n |-> Closure(x, k, 0)] : n \in 0..MaxLong, x \in Vals}

\* the longest buffer SliceSpec builds
MaxLongLen == MaxLong + 2

\* where a run of n fallible productions may fail: nowhere (0) or at the
\* k-th; with a failing allocator the productions are never reached
FailSet(n, allocOk) == IF allocOk THEN 0..Min(Max(n, 0), MaxLen) ELSE {0}

\* no Drain borrows the buffer
NoIter ==
    [live |-> FALSE, start |-> 0, end |-> 0, front |-> 0, back |-> 0,
     tail_start |-> 0, tail_len |-> 0, taken |-> <<>>, orig |-> <<>>]

VecInit ==
    /\ alive = TRUE
    /\ len = 0
    /\ cap = 0
    /\ buf = <<>>
    /\ drops = <<>>
    /\ last = Rec("new", "Ok", 0, 0, 0, Uninit, Uninit, FALSE)
    /\ iter = NoIter

\* Vec::new / Vec::new_in, once the previous buffer has been dropped
New ==
    /\ ~alive
    /\ alive' = TRUE
    /\ len' = 0
    /\ cap' = 0
    /\ buf' = <<>>
    /\ drops' = <<>>
    /\ last' = Rec("new", "Ok", 0, 0, 0, Uninit, Uninit, FALSE)
    /\ UNCHANGED notVec

\* Vec::try_with_capacity_in: new_in, then try_reserve(capacity); on an
\* error the fresh buffer is dropped again
TryWithCapacity ==
    /\ ~alive
    /\ \E capacity \in AddSet, allocOk \in BOOLEAN :
         LET r == StdTryReserve(0, 0, capacity, allocOk)
         IN  /\ alive' = (r.res = "Ok")
             /\ len' = 0
             /\ cap' = r.cap
             /\ buf' = Grown(<<>>, r.cap)
             /\ drops' = <<>>
             /\ last' = Rec("try_with_capacity", TryResult(r.res), capacity,
                            r.allocs,
                            0, Uninit, Uninit, FALSE)
    /\ UNCHANGED notVec

\* Vec::try_reserve
TryReserve ==
    /\ alive
    /\ \E additional \in AddSet, allocOk \in BOOLEAN :
         LET r == StdTryReserve(len, cap, additional, allocOk)
         IN  /\ cap' = r.cap
             /\ buf' = Grown(buf, r.cap)
             /\ last' = Rec("try_reserve", TryResult(r.res), additional,
                            r.allocs,
                            0, Uninit, Uninit, FALSE)
    /\ drops' = <<>>
    /\ UNCHANGED <<alive, len>>
    /\ UNCHANGED notVec

\* Vec::try_reserve_exact
TryReserveExact ==
    /\ alive
    /\ \E additional \in AddSet, allocOk \in BOOLEAN :
         LET r == StdTryReserveExact(len, cap, additional, allocOk)
         IN  /\ cap' = r.cap
             /\ buf' = Grown(buf, r.cap)
             /\ last' = Rec("try_reserve_exact", TryResult(r.res), additional,
                            r.allocs,
                            0, Uninit, Uninit, FALSE)
    /\ drops' = <<>>
    /\ UNCHANGED <<alive, len>>
    /\ UNCHANGED notVec

\* StdVec::push writing over the last element instead of after it
StdPush_Overwrites(l, c, b, value) ==
    LET c2 == IF l = c THEN Max(MinNonZeroCap, Max(2 * c, l + 1)) ELSE c
    IN  [len |-> l + 1, cap |-> c2,
         buf |-> [Grown(b, c2) EXCEPT ![Max(l, 1)] = value],
         abort |-> (l = c)]

\* StdVec::push: a full buffer grows on the infallible path, which aborts
\* the process when the allocator fails; then value is written at len
StdPush(l, c, b, value) ==
    LET c2 == IF l = c THEN Max(MinNonZeroCap, Max(2 * c, l + 1)) ELSE c
    IN  [len |-> l + 1, cap |-> c2,
         buf |-> [Grown(b, c2) EXCEPT ![l + 1] = value],
         abort |-> (l = c)]

\* try_push forgetting value on the early return instead of destroying it
TryPushResult_LeaksValue(l, c, b, value, allocOk) ==
    LET r == IF l = c THEN StdTryReserve(l, c, 1, allocOk)
                      ELSE [res |-> "Ok", cap |-> c, allocs |-> 0]
    IN  IF r.res # "Ok"
        THEN [res |-> r.res, len |-> l, cap |-> c, buf |-> b,
              allocs |-> r.allocs, drops |-> <<>>, abort |-> FALSE]
        ELSE LET s == StdPush(l, r.cap, Grown(b, r.cap), value)
             IN  [res |-> "Ok", len |-> s.len, cap |-> s.cap, buf |-> s.buf,
                  allocs |-> r.allocs, drops |-> <<>>, abort |-> s.abort]

\* Vec::try_push(value): reserve one slot when full, then StdVec::push.
\* `value` is owned by the call: on the early return it is destroyed.
TryPushResult(l, c, b, value, allocOk) ==
    LET r == IF l = c THEN StdTryReserve(l, c, 1, allocOk)
                      ELSE [res |-> "Ok", cap |-> c, allocs |-> 0]
    IN  IF r.res # "Ok"
        THEN [res |-> r.res, len |-> l, cap |-> c, buf |-> b,
              allocs |-> r.allocs, drops |-> <<value>>, abort |-> FALSE]
        ELSE LET s == StdPush(l, r.cap, Grown(b, r.cap), value)
             IN  [res |-> "Ok", len |-> s.len, cap |-> s.cap, buf |-> s.buf,
                  allocs |-> r.allocs, drops |-> <<>>, abort |-> s.abort]

TryPushWithin(bound) ==
    /\ alive
    /\ len < bound
    /\ \E value \in Vals, allocOk \in BOOLEAN :
         LET p == TryPushResult(len, cap, buf, value, allocOk)
         IN  /\ len' = p.len
             /\ cap' = p.cap
             /\ buf' = p.buf
             /\ drops' = p.drops
             /\ last' = [Rec("try_push", p.res, 1, p.allocs,
                              Writes(buf, p.buf), Uninit, value, p.abort)
                           EXCEPT !.pre = Contents]
    /\ UNCHANGED alive
    /\ UNCHANGED notVec

TryPush == TryPushWithin(MaxLen)

\* try_push over the longer run of pushes of PushSpec
TryPushLong == TryPushWithin(MaxPush)

\* pop taking the first element instead of the last
PopResult_Front(l, b) ==
    IF l = 0
    THEN [len |-> l, buf |-> b, res |-> "None", ret |-> Uninit]
    ELSE [len |-> l - 1,
          buf |-> [i \in 1..Len(b) |-> IF i < l THEN b[i + 1] ELSE Uninit],
          res |-> "Some", ret |-> b[1]]

\* StdVec::pop: the last element is moved out to the caller, or None
PopResult(l, b) ==
    IF l = 0
    THEN [len |-> l, buf |-> b, res |-> "None", ret |-> Uninit]
    ELSE [len |-> l - 1, buf |-> Vacate(b, l, l), res |-> "Some",
          ret |-> b[l]]

\* the operation before this one was a try_push that returned Ok
JustPushed == last.op = "try_push" /\ last.res = "Ok"

\* Vec::pop; the record of a pop that follows a successful push keeps what
\* that push was given and the contents before it
Pop ==
    /\ alive
    /\ LET p == PopResult(len, buf)
       IN  /\ len' = p.len
           /\ buf' = p.buf
           /\ last' = [Rec("pop", p.res, 0, 0, 0, p.ret, Uninit, FALSE)
                         EXCEPT !.given = IF JustPushed THEN last.given
                                          ELSE Uninit,
                                !.pre = IF JustPushed THEN last.pre
                                        ELSE <<>>]
    /\ drops' = <<>>
    /\ UNCHANGED <<alive, cap>>
    /\ UNCHANGED notVec

\* truncate that only sets the length and destroys nothing
TruncateResult_SetsLenOnly(l, b, new_len) ==
    IF new_len >= l
    THEN [len |-> l, buf |-> b, drops |-> <<>>]
    ELSE [len |-> new_len, buf |-> b, drops |-> <<>>]

\* StdVec::truncate: destroys [new_len, len) when new_len < len
TruncateResult(l, b, new_len) ==
    IF new_len >= l
    THEN [len |-> l, buf |-> b, drops |-> <<>>]
    ELSE [len |-> new_len, buf |-> Vacate(b, new_len + 1, l),
          drops |-> SubSeq(b, new_len + 1, l)]

\* Vec::truncate
Truncate ==
    /\ alive
    /\ \E new_len \in 0..MaxLen :
         LET t == TruncateResult(len, buf, new_len)
         IN  /\ len' = t.len
             /\ buf' = t.buf
             /\ drops' = t.drops
             /\ last' = Rec("truncate", "Ok", new_len, 0, 0, Uninit, Uninit,
                            FALSE)
    /\ UNCHANGED <<alive, cap>>
    /\ UNCHANGED notVec

\* clear done by putting a new buffer in place of the old one
Clear_ReleasesStorage ==
    /\ alive
    /\ len' = 0
    /\ cap' = 0
    /\ buf' = <<>>
    /\ drops' = SubSeq(buf, 1, len)
    /\ last' = Rec("clear", "Ok", 0, 0, 0, Uninit, Uninit, FALSE)
    /\ UNCHANGED alive
    /\ UNCHANGED notVec

\* Vec::clear
Clear ==
    /\ alive
    /\ LET t == TruncateResult(len, buf, 0)
       IN  /\ len' = t.len
           /\ buf' = t.buf
           /\ drops' = t.drops
           /\ last' = Rec("clear", "Ok", 0, 0, 0, Uninit, Uninit, FALSE)
    /\ UNCHANGED <<alive, cap>>
    /\ UNCHANGED notVec

\* the try_clone calls among the first `calls` productions of
\* ExtendElement over n slots: next() clones, last() moves the value
ClonesAmong(n, calls) == Cardinality({k \in 1..calls : k < n})

\* try_resize giving back the storage behind the length when a clone failed
TryResizeResult_ShrinksOnError(l, c, b, new_len, value, failAt, allocOk) ==
    IF new_len > l
    THEN LET e == TryExtendWith(l, c, b, new_len - l,
                    ExtendElement(value, new_len - l, failAt), allocOk)
         IN  IF e.at = "element"
             THEN [res |-> e.res, len |-> e.len, cap |-> e.len,
                   buf |-> SubSeq(e.buf, 1, e.len), allocs |-> e.allocs,
                   at |-> e.at, drops |-> <<value>>,
                   clones |-> ClonesAmong(new_len - l, e.calls)]
             ELSE [res |-> e.res, len |-> e.len, cap |-> e.cap,
                   buf |-> e.buf, allocs |-> e.allocs, at |-> e.at,
                   drops |-> IF e.res = "Ok" THEN <<>> ELSE <<value>>,
                   clones |-> ClonesAmong(new_len - l, e.calls)]
    ELSE LET t == TruncateResult(l, b, new_len)
         IN  [res |-> "Ok", len |-> t.len, cap |-> c, buf |-> t.buf,
              allocs |-> 0, at |-> "", drops |-> t.drops \o <<value>>,
              clones |-> 0]

\* try_resize cloning value into the last slot too and then destroying it
TryResizeResult_ClonesLast(l, c, b, new_len, value, failAt, allocOk) ==
    IF new_len > l
    THEN LET e == TryExtendWith(l, c, b, new_len - l,
                    ExtendElement(value, new_len - l, failAt), allocOk)
         IN  [res |-> e.res, len |-> e.len, cap |-> e.cap, buf |-> e.buf,
              allocs |-> e.allocs, at |-> e.at,
              drops |-> <<value>>,
              clones |-> e.calls]
    ELSE LET t == TruncateResult(l, b, new_len)
         IN  [res |-> "Ok", len |-> t.len, cap |-> c, buf |-> t.buf,
              allocs |-> 0, at |-> "", drops |-> t.drops \o <<value>>,
              clones |-> 0]

\* Vec::try_resize(new_len, value): extend with clones of value and value
\* itself last, or truncate; value is destroyed unless it was moved in
TryResizeResult(l, c, b, new_len, value, failAt, allocOk) ==
    IF new_len > l
    THEN LET e == TryExtendWith(l, c, b, new_len - l,
                    ExtendElement(value, new_len - l, failAt), allocOk)
         IN  [res |-> e.res, len |-> e.len, cap |-> e.cap, buf |-> e.buf,
              allocs |-> e.allocs, at |-> e.at,
              drops |-> IF e.res = "Ok" THEN <<>> ELSE <<value>>,
              clones |-> ClonesAmong(new_len - l, e.calls)]
    ELSE LET t == TruncateResult(l, b, new_len)
         IN  [res |-> "Ok", len |-> t.len, cap |-> c, buf |-> t.buf,
              allocs |-> 0, at |-> "", drops |-> t.drops \o <<value>>,
              clones |-> 0]

TryResize ==
    /\ alive
    /\ \E new_len \in NewLenSet, value \in Vals, allocOk \in BOOLEAN :
         \E failAt \in FailSet(new_len - len - 1, allocOk) :
           LET e == TryResizeResult(len, cap, buf, new_len, value, failAt,
                                    allocOk)
           IN  /\ len' = e.len
               /\ cap' = e.cap
               /\ buf' = e.buf
               /\ drops' = e.drops
               /\ last' = [Rec("try_resize", e.res, new_len, e.allocs,
                                Writes(buf, e.buf), Uninit, value, FALSE)
                             EXCEPT !.fail = IF e.at = "element" THEN failAt ELSE 0,
                                    !.at = e.at,
                                    !.calls = e.clones]
    /\ UNCHANGED alive
    /\ UNCHANGED notVec

\* try_resize_with without the truncation of its else branch
TryResizeWithResult_NoTruncate(l, c, b, new_len, prods, allocOk) ==
    IF new_len > l
    THEN LET e == TryExtendWith(l, c, b, new_len - l, prods, allocOk)
         IN  [res |-> e.res, len |-> e.len, cap |-> e.cap, buf |-> e.buf,
              allocs |-> e.allocs, at |-> e.at, drops |-> <<>>,
              calls |-> e.calls]
    ELSE [res |-> "Ok", len |-> l, cap |-> c, buf |-> b,
          allocs |-> 0, at |-> "", drops |-> <<>>, calls |-> 0]

\* Vec::try_resize_with(new_len, f): extend with what f produces, or truncate
TryResizeWithResult(l, c, b, new_len, prods, allocOk) ==
    IF new_len > l
    THEN LET e == TryExtendWith(l, c, b, new_len - l, prods, allocOk)
         IN  [res |-> e.res, len |-> e.len, cap |-> e.cap, buf |-> e.buf,
              allocs |-> e.allocs, at |-> e.at, drops |-> <<>>,
              calls |-> e.calls]
    ELSE LET t == TruncateResult(l, b, new_len)
         IN  [res |-> "Ok", len |-> t.len, cap |-> c, buf |-> t.buf,
              allocs |-> 0, at |-> "", drops |-> t.drops, calls |-> 0]

TryResizeWith ==
    /\ alive
    /\ \E new_len \in NewLenSet, x \in Vals, allocOk \in BOOLEAN :
         \E failAt \in FailSet(new_len - len, allocOk) :
           LET e == TryResizeWithResult(len, cap, buf, new_len,
                      ExtendFunc(x, new_len - len, failAt), allocOk)
           IN  /\ len' = e.len
               /\ cap' = e.cap
               /\ buf' = e.buf
               /\ drops' = e.drops
               /\ last' = [Rec("try_resize_with", e.res, new_len, e.allocs,
                                Writes(buf, e.buf), Uninit, x, FALSE)
                             EXCEPT !.fail = IF e.at = "element" THEN failAt ELSE 0,
                                    !.at = e.at,
                                    !.calls = e.calls]
    /\ UNCHANGED alive
    /\ UNCHANGED notVec

\* try_copy_from_slice copying to the start of the storage
TryCopyFromSliceResult_CopiesToStart(l, c, b, other, allocOk) ==
    LET count == Len(other)
        r == StdTryReserve(l, c, count, allocOk)
    IN  IF r.res # "Ok"
        THEN [res |-> r.res, len |-> l, cap |-> c, buf |-> b,
              allocs |-> r.allocs]
        ELSE [res |-> "Ok", len |-> l + count, cap |-> r.cap,
              buf |-> [i \in 1..r.cap |->
                         IF i <= count THEN other[i]
                         ELSE IF i <= l + count THEN Grown(b, r.cap)[i - count]
                         ELSE Uninit],
              allocs |-> r.allocs]

\* Vec::try_copy_from_slice(other): reserve, one bulk copy, one set_len
TryCopyFromSliceResult(l, c, b, other, allocOk) ==
    LET count == Len(other)
        r == StdTryReserve(l, c, count, allocOk)
    IN  IF r.res # "Ok"
        THEN [res |-> r.res, len |-> l, cap |-> c, buf |-> b,
              allocs |-> r.allocs]
        ELSE [res |-> "Ok", len |-> l + count, cap |-> r.cap,
              buf |-> [i \in 1..r.cap |->
                         IF i > l /\ i <= l + count THEN other[i - l]
                         ELSE Grown(b, r.cap)[i]],
              allocs |-> r.allocs]

TryCopyFromSliceOf(slices, bound) ==
    /\ alive
    /\ \E other \in slices, allocOk \in BOOLEAN :
         LET e == TryCopyFromSliceResult(len, cap, buf, other, allocOk)
         IN  /\ len + Len(other) <= bound
             /\ len' = e.len
             /\ cap' = e.cap
             /\ buf' = e.buf
             /\ last' = [Rec("try_copy_from_slice", e.res, Len(other),
                              e.allocs, Writes(buf, e.buf), Uninit, Uninit,
                              FALSE)
                           EXCEPT !.other = other]
    /\ drops' = <<>>
    /\ UNCHANGED alive
    /\ UNCHANGED notVec

TryCopyFromSlice == TryCopyFromSliceOf(Slices, MaxLen)

\* try_copy_from_slice with the longer slices of SliceSpec
TryCopyFromSliceLong == TryCopyFromSliceOf(LongSlices, MaxLongLen)

\* try_extend_from_slice setting the length once, after the last write
TryExtendFromSliceResult_SetsLenAtEnd(l, c, b, other, failAt, allocOk) ==
    LET r == StdTryReserve(l, c, Len(other), allocOk)
        prods == [k \in 1..Len(other) |-> TryCloneElem(other[k], k # failAt)]
    IN  IF r.res # "Ok"
        THEN [res |-> r.res, len |-> l, cap |-> c, buf |-> b,
              allocs |-> r.allocs, at |-> "reserve"]
        ELSE LET w == ExtendLoop(Grown(b, r.cap), l + 1,
                                 SetLenOnDrop_new(l), prods, 1)
             IN  [res |-> w.res,
                  len |-> IF w.res = "Ok" THEN w.local_len ELSE l,
                  cap |-> r.cap, buf |-> w.buf, allocs |-> r.allocs,
                  at |-> IF w.res = "Ok" THEN "" ELSE "element"]

\* Vec::try_extend_from_slice(other): reserve, then write a clone of each
\* element of other under the guard; the clone of other[failAt] fails
TryExtendFromSliceResult(l, c, b, other, failAt, allocOk) ==
    LET r == StdTryReserve(l, c, Len(other), allocOk)
        prods == [k \in 1..Len(other) |-> TryCloneElem(other[k], k # failAt)]
    IN  IF r.res # "Ok"
        THEN [res |-> r.res, len |-> l, cap |-> c, buf |-> b,
              allocs |-> r.allocs, at |-> "reserve"]
        ELSE LET w == ExtendLoop(Grown(b, r.cap), l + 1,
                                 SetLenOnDrop_new(l), prods, 1)
             IN  [res |-> w.res, len |-> SetLenOnDrop_drop(w.local_len),
                  cap |-> r.cap, buf |-> w.buf, allocs |-> r.allocs,
                  at |-> IF w.res = "Ok" THEN "" ELSE "element"]

TryExtendFromSliceOf(slices, bound) ==
    /\ alive
    /\ \E other \in slices, allocOk \in BOOLEAN :
         \E failAt \in (IF allocOk THEN 0..Len(other) ELSE {0}) :
           LET e == TryExtendFromSliceResult(len, cap, buf, other, failAt,
                                             allocOk)
           IN  /\ len + Len(other) <= bound
               /\ len' = e.len
               /\ cap' = e.cap
               /\ buf' = e.buf
               /\ last' = [Rec("try_extend_from_slice", e.res, Len(other),
                                e.allocs, Writes(buf, e.buf), Uninit, Uninit,
                                FALSE)
                             EXCEPT !.fail = IF e.at = "element" THEN failAt ELSE 0,
                                    !.at = e.at,
                                    !.other = other]
    /\ drops' = <<>>
    /\ UNCHANGED alive
    /\ UNCHANGED notVec

TryExtendFromSlice == TryExtendFromSliceOf(Slices, MaxLen)

\* try_extend_from_slice with the longer slices of SliceSpec
TryExtendFromSliceLong == TryExtendFromSliceOf(LongSlices, MaxLongLen)

\* dropping the buffer: the elements of [0, len) are destroyed and the
\* storage is released
DropResult(l, b) == SubSeq(b, 1, l)

Drop ==
    /\ alive
    /\ alive' = FALSE
    /\ drops' = DropResult(len, buf)
    /\ len' = 0
    /\ cap' = 0
    /\ buf' = <<>>
    /\ last' = Rec("drop", "Ok", len, 0, 0, Uninit, Uninit, FALSE)
    /\ UNCHANGED notVec

\* ---------------------------------------------------------------- drain
\* StdVec::drain(range) with start <= end <= len: the length is set to
\* start, and the Drain keeps the range still to yield, [front, back), and
\* the tail [end, len) to move back; `taken` lists the positions yielded
\* and `orig` the contents at the call
DrainResult(l, b, start, end) ==
    [len |-> start,
     iter |-> [live |-> TRUE, start |-> start, end |-> end,
               front |-> start, back |-> end,
               tail_start |-> end, tail_len |-> l - end,
               taken |-> <<>>, orig |-> SubSeq(b, 1, l)]]

\* Vec::drain
Drain ==
    /\ alive
    /\ ~iter.live
    /\ len <= MaxDrain
    /\ \E start \in 0..len : \E end \in start..len :
         LET d == DrainResult(len, buf, start, end)
         IN  /\ len' = d.len
             /\ iter' = d.iter
             /\ last' = [Rec("drain", "Ok", 0, 0, 0, Uninit, Uninit, FALSE)
                           EXCEPT !.range = <<start, end>>,
                                  !.pre = d.iter.orig]
    /\ drops' = <<>>
    /\ UNCHANGED <<alive, cap, buf>>
    /\ UNCHANGED <<cowVars, txtVars, heapVars>>

\* Drain::next: the element at the front of what is left is moved out
DrainNextResult(b, it) ==
    IF it.front = it.back
    THEN [res |-> "None", ret |-> Uninit, buf |-> b, iter |-> it]
    ELSE [res |-> "Some", ret |-> b[it.front + 1],
          buf |-> Vacate(b, it.front + 1, it.front + 1),
          iter |-> [it EXCEPT !.front = it.front + 1,
                              !.taken = Append(it.taken, it.front + 1)]]

\* Drain::next_back: the element at the back of what is left is moved out
DrainNextBackResult(b, it) ==
    IF it.front = it.back
    THEN [res |-> "None", ret |-> Uninit, buf |-> b, iter |-> it]
    ELSE [res |-> "Some", ret |-> b[it.back],
          buf |-> Vacate(b, it.back, it.back),
          iter |-> [it EXCEPT !.back = it.back - 1,
                              !.taken = Append(it.taken, it.back)]]

DrainNext ==
    /\ iter.live
    /\ LET n == DrainNextResult(buf, iter)
       IN  /\ buf' = n.buf
           /\ iter' = n.iter
           /\ last' = Rec("drain_next", n.res, 0, 0, 0, n.ret, Uninit, FALSE)
    /\ drops' = <<>>
    /\ UNCHANGED <<alive, len, cap>>
    /\ UNCHANGED <<cowVars, txtVars, heapVars>>

DrainNextBack ==
    /\ iter.live
    /\ LET n == DrainNextBackResult(buf, iter)
       IN  /\ buf' = n.buf
           /\ iter' = n.iter
           /\ last' = Rec("drain_next_back", n.res, 0, 0, 0, n.ret, Uninit,
                          FALSE)
    /\ drops' = <<>>
    /\ UNCHANGED <<alive, len, cap>>
    /\ UNCHANGED <<cowVars, txtVars, heapVars>>

\* a release of the Drain that removes only what the caller consumed
DrainDropResult_KeepsUnconsumed(l, b, it) ==
    LET left == it.back - it.front
    IN  [drops |-> <<>>,
         len |-> l + left + it.tail_len,
         buf |-> [i \in 1..Len(b) |->
                    IF i <= l THEN b[i]
                    ELSE IF i <= l + left THEN b[it.front + (i - l)]
                    ELSE IF i <= l + left + it.tail_len
                    THEN b[it.tail_start + (i - l - left)]
                    ELSE Uninit]]

\* the Drain is dropped: what it has not yielded is destroyed, the tail is
\* moved down to the length the buffer was given (the start of the range)
\* and the length is set behind it
DrainDropResult(l, b, it) ==
    [drops |-> SubSeq(b, it.front + 1, it.back),
     len |-> l + it.tail_len,
     buf |-> [i \in 1..Len(b) |->
                IF i <= l THEN b[i]
                ELSE IF i <= l + it.tail_len
                THEN b[it.tail_start + (i - l)]
                ELSE Uninit]]

DrainDrop ==
    /\ iter.live
    /\ LET d == DrainDropResult(len, buf, iter)
       IN  /\ len' = d.len
           /\ buf' = d.buf
           /\ drops' = d.drops
           /\ last' = [Rec("drain_drop", "Ok", 0, 0, 0, Uninit, Uninit, FALSE)
                         EXCEPT !.range = <<iter.start, iter.end>>,
                                !.pre = iter.orig,
                                !.taken = iter.taken]
    /\ iter' = NoIter
    /\ UNCHANGED <<alive, cap>>
    /\ UNCHANGED <<cowVars, txtVars, heapVars>>

\* ------------------------------------------------------ indexed removal
\* the indexes tried: those of the buffer, the ones just behind it and
\* usize::MAX
IndexSet == (0..MaxDrain) \cup {UsizeMax}

\* remove done as swap_remove does it
RemoveResult_SwapsLast(l, b, index) ==
    IF index >= l
    THEN [res |-> "Panic", ret |-> Uninit, len |-> l, buf |-> b]
    ELSE [res |-> "Ok", ret |-> b[index + 1], len |-> l - 1,
          buf |-> [i \in 1..Len(b) |->
                     IF i = l THEN Uninit
                     ELSE IF i = index + 1 THEN b[l]
                     ELSE b[i]]]

\* StdVec::remove(index): panics when index >= len, before it touches the
\* buffer; else the element is moved out and the ones behind it are shifted
\* down by one
RemoveResult(l, b, index) ==
    IF index >= l
    THEN [res |-> "Panic", ret |-> Uninit, len |-> l, buf |-> b]
    ELSE [res |-> "Ok", ret |-> b[index + 1], len |-> l - 1,
          buf |-> [i \in 1..Len(b) |->
                     IF i <= index THEN b[i]
                     ELSE IF i < l THEN b[i + 1]
                     ELSE Uninit]]

\* StdVec::swap_remove(index): panics when index >= len; else the element
\* is moved out and the last one is moved into its slot
SwapRemoveResult(l, b, index) ==
    IF index >= l
    THEN [res |-> "Panic", ret |-> Uninit, len |-> l, buf |-> b]
    ELSE [res |-> "Ok", ret |-> b[index + 1], len |-> l - 1,
          buf |-> [i \in 1..Len(b) |->
                     IF i = l THEN Uninit
                     ELSE IF i = index + 1 THEN b[l]
                     ELSE b[i]]]

\* Vec::remove
Remove ==
    /\ alive
    /\ ~iter.live
    /\ \E index \in IndexSet :
         LET r == RemoveResult(len, buf, index)
         IN  /\ len' = r.len
             /\ buf' = r.buf
             /\ last' = [Rec("remove", r.res, index, 0, 0, r.ret, Uninit,
                             FALSE)
                           EXCEPT !.pre = Contents]
    /\ drops' = <<>>
    /\ UNCHANGED <<alive, cap>>
    /\ UNCHANGED notVec

\* Vec::swap_remove
SwapRemove ==
    /\ alive
    /\ ~iter.live
    /\ \E index \in IndexSet :
         LET r == SwapRemoveResult(len, buf, index)
         IN  /\ len' = r.len
             /\ buf' = r.buf
             /\ last' = [Rec("swap_remove", r.res, index, 0, 0, r.ret, Uninit,
                             FALSE)
                           EXCEPT !.pre = Contents]
    /\ drops' = <<>>
    /\ UNCHANGED <<alive, cap>>
    /\ UNCHANGED notVec

\* Index::index with a single position: the slice's indexing, which panics
\* when index >= len
IndexResult(l, b, index) ==
    IF index >= l
    THEN [res |-> "Panic", ret |-> Uninit]
    ELSE [res |-> "Ok", ret |-> b[index + 1]]

\* vec[index]
Index ==
    /\ alive
    /\ ~iter.live
    /\ \E index \in IndexSet :
         LET r == IndexResult(len, buf, index)
         IN  last' = [Rec("index", r.res, index, 0, 0, r.ret, Uninit, FALSE)
                        EXCEPT !.pre = Contents]
    /\ drops' = <<>>
    /\ UNCHANGED <<alive, len, cap, buf>>
    /\ UNCHANGED notVec

\* the buffer is filled, and dropped, only while no Drain borrows it
DrainFill == ~iter.live /\ TryCopyFromSliceOf(Slices, MaxDrain)

DrainRelease == ~iter.live /\ Drop

\* pop, truncate and clear while no Drain borrows the buffer
UnborrowedPop == ~iter.live /\ Pop

UnborrowedTruncate == ~iter.live /\ Truncate

UnborrowedClear == ~iter.live /\ Clear

\* ------------------------------------------------------------- strings
\* the contents a str can have
Strs == UNION {[1..n -> Chars] : n \in 0..MaxStr}

\* StdString::push_str: appends on the infallible path, which grows (and
\* aborts on failure) only when the room is missing
StdPushStr(data, c, string) ==
    [data |-> data \o string,
     cap |-> IF c - Len(data) >= Len(string) THEN c
             ELSE Max(8, Max(2 * c, Len(data) + Len(string))),
     abort |-> (c - Len(data) < Len(string))]

\* String::try_push_str: reserve string.len() bytes, then push_str
StringTryPushStr(data, c, string, allocOk) ==
    LET r == RawTryReserve(Len(data), c, Len(string), allocOk, FALSE, 1)
    IN  IF r.res # "Ok"
        THEN [res |-> r.res, data |-> data, cap |-> c, allocs |-> r.allocs,
              abort |-> FALSE]
        ELSE LET s == StdPushStr(data, r.cap, string)
             IN  [res |-> "Ok", data |-> s.data, cap |-> s.cap,
                  allocs |-> r.allocs, abort |-> s.abort]

\* TryToOwned for str: String::new(), then try_push_str(self)
StrTryToOwned(string, allocOk) ==
    StringTryPushStr(<<>>, 0, string, allocOk)

\* ------------------------------------------------------- clone-on-write
\* a borrow the caller hands out: where the str lives and what it holds
Refs == [addr : 1..MaxRefs, data : Strs]

NoRef == [addr |-> 0, data |-> <<>>]

\* Cow::Borrowed(&b)
Borrowed(ref) == [tag |-> "Borrowed", ref |-> ref, data |-> <<>>, cap |-> 0]

\* Cow::Owned(o)
Owned(data, c) == [tag |-> "Owned", ref |-> NoRef, data |-> data, cap |-> c]

\* a wrapper that has been consumed
Moved == [tag |-> "Moved", ref |-> NoRef, data |-> <<>>, cap |-> 0]

\* the record kept of the last wrapper operation: what it returned, how
\* often it called try_to_owned and the allocator; `out` is the wrapper a
\* try_clone returned and `src` the source handed to try_clone_from
CRec(op, res, toOwned, allocs, ret) ==
    [op |-> op, res |-> res, toOwned |-> toOwned, allocs |-> allocs,
     ret |-> ret, out |-> Moved, src |-> Moved]

\* what has been asked of a wrapper since it was constructed: the variant it
\* was born with, the try_to_owned calls made through it, the result of the
\* first to_mut, and whether it was duplicated or assigned to
HistNew(w) == [born |-> w.tag, calls |-> 0, first |-> "", others |-> FALSE]

\* the wrappers a caller constructs: over a borrow, or around a String it
\* made from a str
NewCows ==
    {Borrowed(r) : r \in Refs}
      \cup {Owned(o.data, o.cap) : o \in {StrTryToOwned(x, TRUE) : x \in Strs}}

CowInit ==
    /\ cow \in NewCows
    /\ clast = CRec("new", "Ok", 0, 0, <<>>)
    /\ hist = HistNew(cow)

\* constructing the next wrapper once the previous one has been consumed
CowNew ==
    /\ cow.tag = "Moved"
    /\ cow' \in NewCows
    /\ clast' = CRec("new", "Ok", 0, 0, <<>>)
    /\ hist' = HistNew(cow')
    /\ UNCHANGED notCow

\* to_mut switching to an empty Owned value before the duplication is known
\* to have succeeded
ToMutResult_OwnedOnError(w, allocOk) ==
    IF w.tag = "Borrowed"
    THEN LET o == StrTryToOwned(w.ref.data, allocOk)
         IN  [cow |-> Owned(o.data, o.cap), res |-> o.res, toOwned |-> 1,
              allocs |-> o.allocs,
              ret |-> IF o.res = "Ok" THEN o.data ELSE <<>>]
    ELSE [cow |-> w, res |-> "Ok", toOwned |-> 0, allocs |-> 0,
          ret |-> w.data]

\* to_mut duplicating the data again although the wrapper is Owned
ToMutResult_ClonesAgain(w, allocOk) ==
    LET o == StrTryToOwned(IF w.tag = "Borrowed" THEN w.ref.data ELSE w.data,
                           allocOk)
    IN  IF o.res # "Ok"
        THEN [cow |-> w, res |-> o.res, toOwned |-> 1, allocs |-> o.allocs,
              ret |-> <<>>]
        ELSE [cow |-> Owned(o.data, o.cap), res |-> "Ok", toOwned |-> 1,
              allocs |-> o.allocs, ret |-> o.data]

\* Cow::to_mut: a Borrowed wrapper is replaced by Owned(try_to_owned()?),
\* an Owned one hands out its value
ToMutResult(w, allocOk) ==
    IF w.tag = "Borrowed"
    THEN LET o == StrTryToOwned(w.ref.data, allocOk)
         IN  IF o.res # "Ok"
             THEN [cow |-> w, res |-> o.res, toOwned |-> 1,
                   allocs |-> o.allocs, ret |-> <<>>]
             ELSE [cow |-> Owned(o.data, o.cap), res |-> "Ok", toOwned |-> 1,
                   allocs |-> o.allocs, ret |-> o.data]
    ELSE [cow |-> w, res |-> "Ok", toOwned |-> 0, allocs |-> 0,
          ret |-> w.data]

ToMut ==
    /\ cow.tag # "Moved"
    /\ hist.calls < MaxCalls
    /\ \E allocOk \in BOOLEAN :
         LET t == ToMutResult(cow, allocOk)
         IN  /\ cow' = t.cow
             /\ clast' = CRec("to_mut", t.res, t.toOwned, t.allocs, t.ret)
             /\ hist' = [hist EXCEPT !.calls = @ + t.toOwned,
                                     !.first = IF @ = "" THEN t.res ELSE @]
    /\ UNCHANGED notCow

\* into_owned duplicating the data whichever the variant
IntoOwnedResult_AlwaysClones(w, allocOk) ==
    LET o == StrTryToOwned(IF w.tag = "Borrowed" THEN w.ref.data ELSE w.data,
                           allocOk)
    IN  [res |-> o.res, toOwned |-> 1, allocs |-> o.allocs, ret |-> o.data]

\* Cow::into_owned: consumes the wrapper; a Borrowed one is duplicated, an
\* Owned one gives up its value
IntoOwnedResult(w, allocOk) ==
    IF w.tag = "Borrowed"
    THEN LET o == StrTryToOwned(w.ref.data, allocOk)
         IN  [res |-> o.res, toOwned |-> 1, allocs |-> o.allocs,
              ret |-> o.data]
    ELSE [res |-> "Ok", toOwned |-> 0, allocs |-> 0, ret |-> w.data]

IntoOwned ==
    /\ cow.tag # "Moved"
    /\ \E allocOk \in BOOLEAN :
         LET t == IntoOwnedResult(cow, allocOk)
         IN  /\ cow' = Moved
             /\ clast' = CRec("into_owned", t.res, t.toOwned, t.allocs, t.ret)
             /\ hist' = HistNew(Moved)
    /\ UNCHANGED notCow

\* String::try_push_str on the value behind the reference to_mut handed out
OwnedTryPushStr ==
    /\ cow.tag = "Owned"
    /\ \E string \in Strs, allocOk \in BOOLEAN :
         LET p == StringTryPushStr(cow.data, cow.cap, string, allocOk)
         IN  /\ Len(cow.data) + Len(string) <= MaxStr + 1
             /\ cow' = Owned(p.data, p.cap)
             /\ clast' = CRec("try_push_str", p.res, 0, p.allocs, <<>>)
    /\ UNCHANGED hist
    /\ UNCHANGED notCow

\* Deref for Cow: the borrowed data, or the owned value's
DerefResult(w) == IF w.tag = "Borrowed" THEN w.ref.data ELSE w.data

Deref ==
    /\ cow.tag # "Moved"
    /\ clast' = CRec("deref", "Ok", 0, 0, DerefResult(cow))
    /\ UNCHANGED <<cow, hist>>
    /\ UNCHANGED notCow

\* Cow::is_borrowed (is_owned is its negation)
IsBorrowedResult(w) == w.tag = "Borrowed"

IsBorrowed ==
    /\ cow.tag # "Moved"
    /\ clast' = CRec("is_borrowed",
                     IF IsBorrowedResult(cow) THEN "true" ELSE "false",
                     0, 0, <<>>)
    /\ UNCHANGED <<cow, hist>>
    /\ UNCHANGED notCow

\* try_clone handing back a Borrowed wrapper over the owned data
TryCloneResult_BorrowsOwned(w, allocOk) ==
    IF w.tag = "Borrowed"
    THEN [res |-> "Ok", out |-> Borrowed(w.ref), toOwned |-> 0, allocs |-> 0]
    ELSE [res |-> "Ok", out |-> Borrowed([addr |-> 1, data |-> w.data]),
          toOwned |-> 0, allocs |-> 0]

\* TryClone for Cow, try_clone: a Borrowed wrapper is copied with its
\* reference, an Owned one is duplicated with try_to_owned on its data
TryCloneResult(w, allocOk) ==
    IF w.tag = "Borrowed"
    THEN [res |-> "Ok", out |-> Borrowed(w.ref), toOwned |-> 0, allocs |-> 0]
    ELSE LET o == StrTryToOwned(w.data, allocOk)
         IN  IF o.res # "Ok"
             THEN [res |-> o.res, out |-> Moved, toOwned |-> 1,
                   allocs |-> o.allocs]
             ELSE [res |-> "Ok", out |-> Owned(o.data, o.cap), toOwned |-> 1,
                   allocs |-> o.allocs]

TryClone ==
    /\ cow.tag # "Moved"
    /\ hist.calls < MaxCalls
    /\ \E allocOk \in BOOLEAN :
         LET t == TryCloneResult(cow, allocOk)
         IN  /\ clast' = [CRec("try_clone", t.res, t.toOwned, t.allocs, <<>>)
                            EXCEPT !.out = t.out]
             /\ hist' = [hist EXCEPT !.calls = @ + t.toOwned,
                                     !.others = TRUE]
    /\ UNCHANGED cow
    /\ UNCHANGED notCow

\* TryToOwned for str, try_clone_into: target.clear(), then try_push_str
StrTryCloneInto(string, c, allocOk) ==
    StringTryPushStr(<<>>, c, string, allocOk)

\* try_clone_from keeping the destination's variant whatever the source
TryCloneFromResult_KeepsVariant(w, source, allocOk) ==
    IF w.tag = "Owned" /\ source.tag = "Owned"
    THEN LET p == StrTryCloneInto(source.data, w.cap, allocOk)
         IN  [cow |-> Owned(p.data, p.cap), res |-> p.res, toOwned |-> 0,
              allocs |-> p.allocs]
    ELSE LET o == StrTryToOwned(DerefResult(source), allocOk)
         IN  IF o.res # "Ok"
             THEN [cow |-> w, res |-> o.res, toOwned |-> 1,
                   allocs |-> o.allocs]
             ELSE [cow |-> IF w.tag = "Owned" THEN Owned(o.data, o.cap)
                           ELSE Borrowed(IF source.tag = "Borrowed"
                                         THEN source.ref
                                         ELSE [addr |-> 1, data |-> o.data]),
                   res |-> "Ok", toOwned |-> 1, allocs |-> o.allocs]

\* try_clone_from without the in-place arm: always *self = source.try_clone()?
TryCloneFromResult_AlwaysReplaces(w, source, allocOk) ==
    LET c == TryCloneResult(source, allocOk)
    IN  IF c.res # "Ok"
        THEN [cow |-> w, res |-> c.res, toOwned |-> c.toOwned,
              allocs |-> c.allocs]
        ELSE [cow |-> c.out, res |-> "Ok", toOwned |-> c.toOwned,
              allocs |-> c.allocs]

\* TryClone for Cow, try_clone_from: an Owned destination is refilled in
\* place from an Owned source with try_clone_into; in every other case the
\* destination is replaced by source.try_clone()?
TryCloneFromResult(w, source, allocOk) ==
    IF w.tag = "Owned" /\ source.tag = "Owned"
    THEN LET p == StrTryCloneInto(source.data, w.cap, allocOk)
         IN  [cow |-> Owned(p.data, p.cap), res |-> p.res, toOwned |-> 0,
              allocs |-> p.allocs]
    ELSE LET c == TryCloneResult(source, allocOk)
         IN  IF c.res # "Ok"
             THEN [cow |-> w, res |-> c.res, toOwned |-> c.toOwned,
                   allocs |-> c.allocs]
             ELSE [cow |-> c.out, res |-> "Ok", toOwned |-> c.toOwned,
                   allocs |-> c.allocs]

TryCloneFrom ==
    /\ cow.tag # "Moved"
    /\ hist.calls < MaxCalls
    /\ \E source \in NewCows, allocOk \in BOOLEAN :
         LET t == TryCloneFromResult(cow, source, allocOk)
         IN  /\ cow' = t.cow
             /\ clast' = [CRec("try_clone_from", t.res, t.toOwned, t.allocs,
                                <<>>)
                            EXCEPT !.src = source]
             /\ hist' = [hist EXCEPT !.calls = @ + t.toOwned,
                                     !.others = TRUE]
    /\ UNCHANGED notCow

\* ------------------------------------------------------ text and blocks
\* mem::size_of::<char>()
SizeOfChar == 4

\* the characters of the texts that are converted: 'a', U+0149 (two bytes,
\* upper case U+02BC 'N'), U+0130 (two bytes, lower case 'i' U+0307) and
\* capital sigma; and the characters the conversions produce
LetterA == 1
LetterNApos == 2
LetterIDot == 3
CapitalSigma == 4
CapitalA == 5
ModApostrophe == 6
CapitalN == 7
LetterI == 8
CombiningDot == 9
SmallSigma == 10
FinalSigma == 11

TextChars == {LetterA, LetterNApos, LetterIDot, CapitalSigma}

\* char::len_utf8
Utf8Len(ch) ==
    IF ch \in {LetterA, CapitalA, CapitalN, LetterI} THEN 1 ELSE 2

\* the bytes a char is encoded in
Utf8(ch) == [i \in 1..Utf8Len(ch) |-> ch]

\* the bytes of a str given by its chars
RECURSIVE Encode(_)
Encode(text) ==
    IF text = <<>> THEN <<>> ELSE Utf8(Head(text)) \o Encode(Tail(text))

\* conversions::to_upper, without the '\0' padding
ToUpper(ch) ==
    IF ch = LetterA THEN <<CapitalA>>
    ELSE IF ch = LetterNApos THEN <<ModApostrophe, CapitalN>>
    ELSE <<ch>>

\* conversions::to_lower, without the '\0' padding
ToLower(ch) ==
    IF ch = LetterIDot THEN <<LetterI, CombiningDot>>
    ELSE IF ch = CapitalA THEN <<LetterA>>
    ELSE <<ch>>

\* the texts handed to the conversions
Texts == UNION {[1..n -> TextChars] : n \in 0..MaxText}

\* the record kept of the last String operation: its result, the allocator
\* calls it made, and whether it reached the growth of an infallible push
\* (which aborts the process when the allocator fails)
TRec(op, res, allocs, abort) ==
    [op |-> op, res |-> res, allocs |-> allocs, abort |-> abort,
     arg |-> <<>>, pre |-> <<>>, fail |-> 0]

\* String::try_with_capacity: StdString::new(), then try_reserve(capacity);
\* the allocator call numbered failAt is the one that fails
StringTryWithCapacity(capacity, failAt) ==
    LET r == RawTryReserve(0, 0, capacity, failAt # 1, FALSE, 1)
    IN  [data |-> <<>>, cap |-> r.cap, calls |-> r.allocs, reached |-> FALSE,
         res |-> r.res]

\* String::push(ch) for each of chars in turn: StdString::push, whose growth
\* is infallible
RECURSIVE PushChars(_, _, _)
PushChars(st, chars, failAt) ==
    IF chars = <<>> \/ st.res # "Ok" THEN st
    ELSE LET s == StdPushStr(st.data, st.cap, Utf8(Head(chars)))
             n == st.calls + (IF s.abort THEN 1 ELSE 0)
         IN  IF s.abort /\ n = failAt
             THEN [st EXCEPT !.res = "Abort", !.calls = n, !.reached = TRUE]
             ELSE PushChars([data |-> s.data, cap |-> s.cap, calls |-> n,
                             reached |-> st.reached \/ s.abort,
                             res |-> "Ok"],
                            Tail(chars), failAt)

\* the loop of try_to_uppercase over the chars of the text
RECURSIVE UpperLoop(_, _, _)
UpperLoop(st, text, failAt) ==
    IF text = <<>> \/ st.res # "Ok" THEN st
    ELSE UpperLoop(PushChars(st, ToUpper(Head(text)), failAt), Tail(text),
                   failAt)

\* StrExt::try_to_uppercase
TryToUppercaseResult(text, failAt) ==
    UpperLoop(StringTryWithCapacity(Len(Encode(text)), failAt), text, failAt)

\* map_uppercase_sigma: try_push_str of the final or the small sigma
MapUppercaseSigma(st, text, i, failAt) ==
    LET is_word_final == i > 1 /\ i = Len(text)
        p == StringTryPushStr(st.data, st.cap,
                              Utf8(IF is_word_final THEN FinalSigma
                                   ELSE SmallSigma),
                              st.calls + 1 # failAt)
    IN  [data |-> p.data, cap |-> p.cap, calls |-> st.calls + p.allocs,
         reached |-> st.reached \/ p.abort, res |-> p.res]

\* the loop of try_to_lowercase from the i-th char of the text on
RECURSIVE LowerLoop(_, _, _, _)
LowerLoop(st, text, i, failAt) ==
    IF i > Len(text) \/ st.res # "Ok" THEN st
    ELSE IF text[i] = CapitalSigma
    THEN LowerLoop(MapUppercaseSigma(st, text, i, failAt), text, i + 1,
                   failAt)
    ELSE LowerLoop(PushChars(st, ToLower(text[i]), failAt), text, i + 1,
                   failAt)

\* StrExt::try_to_lowercase
TryToLowercaseResult(text, failAt) ==
    LowerLoop(StringTryWithCapacity(Len(Encode(text)), failAt), text, 1,
              failAt)

\* the allocator call that is made to fail within one conversion; 0: none
FailCalls == 0..MaxFailCall

\* an empty String that owns no storage
EmptyTxt == [data |-> <<>>, cap |-> 0]

TxtInit ==
    /\ txt = EmptyTxt
    /\ tlast = TRec("new", "Ok", 0, FALSE)

\* String::new, replacing the String at hand
TxtNew ==
    /\ txt # EmptyTxt
    /\ txt' = EmptyTxt
    /\ tlast' = TRec("new", "Ok", 0, FALSE)
    /\ UNCHANGED notTxt

\* String::try_push_str
TxtTryPushStr ==
    /\ \E string \in Strs, allocOk \in BOOLEAN :
         LET p == StringTryPushStr(txt.data, txt.cap, string, allocOk)
         IN  /\ Len(txt.data) + Len(string) <= MaxTxt
             /\ txt' = [data |-> p.data, cap |-> p.cap]
             /\ tlast' = [TRec("try_push_str", p.res, p.allocs, p.abort)
                            EXCEPT !.arg = string, !.pre = txt.data]
    /\ UNCHANGED notTxt

\* try_push reserving only the bytes ch is encoded in
StringTryPush_ReservesEncoded(data, c, ch, allocOk) ==
    LET r == RawTryReserve(Len(data), c, Utf8Len(ch), allocOk, FALSE, 1)
    IN  IF r.res # "Ok"
        THEN [res |-> r.res, data |-> data, cap |-> c, allocs |-> r.allocs,
              abort |-> FALSE]
        ELSE LET s == StdPushStr(data, r.cap, Utf8(ch))
             IN  [res |-> "Ok", data |-> s.data, cap |-> s.cap,
                  allocs |-> r.allocs, abort |-> s.abort]

\* String::try_push(ch): try_reserve(size_of::<char>()), then push(ch)
StringTryPush(data, c, ch, allocOk) ==
    LET r == RawTryReserve(Len(data), c, SizeOfChar, allocOk, FALSE, 1)
    IN  IF r.res # "Ok"
        THEN [res |-> r.res, data |-> data, cap |-> c, allocs |-> r.allocs,
              abort |-> FALSE]
        ELSE LET s == StdPushStr(data, r.cap, Utf8(ch))
             IN  [res |-> "Ok", data |-> s.data, cap |-> s.cap,
                  allocs |-> r.allocs, abort |-> s.abort]

TxtTryPush ==
    /\ \E ch \in {LetterA, LetterNApos}, allocOk \in BOOLEAN :
         LET p == StringTryPush(txt.data, txt.cap, ch, allocOk)
         IN  /\ Len(txt.data) + Utf8Len(ch) <= MaxTxt
             /\ txt' = [data |-> p.data, cap |-> p.cap]
             /\ tlast' = [TRec("try_push", p.res, p.allocs, p.abort)
                            EXCEPT !.arg = Utf8(ch), !.pre = txt.data]
    /\ UNCHANGED notTxt

\* io::Write for Vec<u8>, write / write_all: try_reserve(buf.len()), then
\* extend_from_slice(buf); an error becomes ErrorKind::OutOfMemory
VecWrite(data, c, bytes, allocOk) ==
    LET r == RawTryReserve(Len(data), c, Len(bytes), allocOk, FALSE, 1)
    IN  IF r.res # "Ok"
        THEN [res |-> "OutOfMemory", data |-> data, cap |-> c,
              allocs |-> r.allocs, abort |-> FALSE]
        ELSE LET s == StdPushStr(data, r.cap, bytes)
             IN  [res |-> "Ok", data |-> s.data, cap |-> s.cap,
                  allocs |-> r.allocs, abort |-> s.abort]

TxtWrite ==
    /\ \E bytes \in Strs, allocOk \in BOOLEAN :
         LET p == VecWrite(txt.data, txt.cap, bytes, allocOk)
         IN  /\ Len(txt.data) + Len(bytes) <= MaxTxt
             /\ txt' = [data |-> p.data, cap |-> p.cap]
             /\ tlast' = [TRec("write", p.res, p.allocs, p.abort)
                            EXCEPT !.arg = bytes, !.pre = txt.data]
    /\ UNCHANGED notTxt

\* what a conversion hands back to a caller that holds no String: the new
\* String, or nothing
Converted(op, st, text) ==
    /\ txt' = IF st.res = "Ok" THEN [data |-> st.data, cap |-> st.cap]
              ELSE EmptyTxt
    /\ tlast' = [TRec(op, st.res, st.calls, st.reached)
                   EXCEPT !.arg = text]

TryToUppercase ==
    /\ txt = EmptyTxt
    /\ \E text \in Texts, failAt \in FailCalls :
         Converted("try_to_uppercase", TryToUppercaseResult(text, failAt),
                   text)
    /\ UNCHANGED notTxt

TryToLowercase ==
    /\ txt = EmptyTxt
    /\ \E text \in Texts, failAt \in FailCalls :
         Converted("try_to_lowercase", TryToLowercaseResult(text, failAt),
                   text)
    /\ UNCHANGED notTxt

\* ------------------------------------------------------- copy-assignment
\* String::try_reserve_exact
StringTryReserveExact(data, c, additional, allocOk) ==
    LET r == RawTryReserve(Len(data), c, additional, allocOk, TRUE, 1)
    IN  [res |-> r.res, data |-> data, cap |-> r.cap, allocs |-> r.allocs,
         abort |-> FALSE]

\* String::clear / Vec::clear: the length is set to 0, the storage stays
StringClear(data, c) == [data |-> <<>>, cap |-> c]

\* try_clone_from that appends to what the target holds
StringTryCloneFrom_NoClear(data, c, source, allocOk) ==
    StringTryPushStr(data, c, source, allocOk)

\* TryClone for String, try_clone_from: self.clear(), then
\* self.try_push_str(source)?
StringTryCloneFrom(data, c, source, allocOk) ==
    LET t == StringClear(data, c)
    IN  StringTryPushStr(t.data, t.cap, source, allocOk)

\* [u8]::try_clone_into that clears the target only once the room is there
BytesTryCloneInto_ReservesFirst(bytes, data, c, allocOk) ==
    LET r == RawTryReserve(0, c, Len(bytes), allocOk, FALSE, 1)
    IN  IF r.res # "Ok"
        THEN [res |-> r.res, data |-> data, cap |-> c,
              allocs |-> r.allocs, abort |-> FALSE]
        ELSE [res |-> "Ok", data |-> bytes, cap |-> r.cap,
              allocs |-> r.allocs, abort |-> FALSE]

\* TryToOwned for [u8], try_clone_into: target.clear(), then
\* target.try_copy_from_slice(self), which reserves and then copies
BytesTryCloneInto(bytes, data, c, allocOk) ==
    LET t == StringClear(data, c)
        r == RawTryReserve(Len(t.data), t.cap, Len(bytes), allocOk, FALSE, 1)
    IN  IF r.res # "Ok"
        THEN [res |-> r.res, data |-> t.data, cap |-> t.cap,
              allocs |-> r.allocs, abort |-> FALSE]
        ELSE [res |-> "Ok", data |-> t.data \o bytes, cap |-> r.cap,
              allocs |-> r.allocs, abort |-> FALSE]

\* TryToOwned for T: TryClone, try_clone_into: target.try_clone_from(self),
\* here with T = String
BlanketTryCloneInto(source, data, c, allocOk) ==
    StringTryCloneFrom(data, c, source, allocOk)

\* the default TryToOwned::try_clone_into: *target = self.try_to_owned()?
DefaultTryCloneInto(source, data, c, allocOk) ==
    LET o == StrTryToOwned(source, allocOk)
    IN  IF o.res # "Ok"
        THEN [res |-> o.res, data |-> data, cap |-> c, allocs |-> o.allocs,
              abort |-> FALSE]
        ELSE o

\* the target after a copy-assignment, and the record of it
Assigned(op, p, source) ==
    /\ txt' = [data |-> p.data, cap |-> p.cap]
    /\ tlast' = [TRec(op, p.res, p.allocs, p.abort)
                   EXCEPT !.arg = source, !.pre = txt.data]

TxtTryReserveExact ==
    /\ \E additional \in 1..MaxStr, allocOk \in BOOLEAN :
         LET p == StringTryReserveExact(txt.data, txt.cap, additional, allocOk)
         IN  /\ Len(txt.data) + additional <= MaxTxt
             /\ Assigned("try_reserve_exact", p, <<>>)
    /\ UNCHANGED notTxt

\* source.try_clone_into(&mut target) for a str source
TxtStrTryCloneInto ==
    /\ \E source \in Strs, allocOk \in BOOLEAN :
         Assigned("str::try_clone_into",
                  StrTryCloneInto(source, StringClear(txt.data, txt.cap).cap,
                                  allocOk),
                  source)
    /\ UNCHANGED notTxt

\* source.try_clone_into(&mut target) for a [u8] source
TxtBytesTryCloneInto ==
    /\ \E source \in Strs, allocOk \in BOOLEAN :
         Assigned("[u8]::try_clone_into",
                  BytesTryCloneInto(source, txt.data, txt.cap, allocOk),
                  source)
    /\ UNCHANGED notTxt

\* target.try_clone_from(&source) for Strings
TxtStringTryCloneFrom ==
    /\ \E source \in Strs, allocOk \in BOOLEAN :
         Assigned("String::try_clone_from",
                  StringTryCloneFrom(txt.data, txt.cap, source, allocOk),
                  source)
    /\ UNCHANGED notTxt

\* source.try_clone_into(&mut target) for a String source
TxtBlanketTryCloneInto ==
    /\ \E source \in Strs, allocOk \in BOOLEAN :
         Assigned("T::try_clone_into",
                  BlanketTryCloneInto(source, txt.data, txt.cap, allocOk),
                  source)
    /\ UNCHANGED notTxt

\* Cow::try_clone_from where the target is the String of an Owned wrapper
\* and the source is Owned too
TxtCowTryCloneFrom ==
    /\ \E source \in Strs, allocOk \in BOOLEAN :
         LET o == StrTryToOwned(source, TRUE)
             t == TryCloneFromResult(Owned(txt.data, txt.cap),
                                     Owned(o.data, o.cap), allocOk)
         IN  Assigned("Cow::try_clone_from",
                      [res |-> t.res, data |-> t.cow.data, cap |-> t.cow.cap,
                       allocs |-> t.allocs, abort |-> FALSE],
                      source)
    /\ UNCHANGED notTxt

\* ------------------------------------------------------------ try_format
\* the byte of a decimal digit
Digit(d) == 48 + d

\* Display for an unsigned integer: its decimal digits
RECURSIVE Decimal(_)
Decimal(n) ==
    IF n < 10 THEN <<Digit(n)>>
    ELSE Append(Decimal(n \div 10), Digit(n % 10))

\* "abc"
Abc == <<97, 98, 99>>

\* what a format template is made of: literal pieces, and {} arguments
\* that are integers or strs
FmtItem(kind, text, num) == [kind |-> kind, text |-> text, num |-> num]

FmtItems ==
    {FmtItem("lit", <<1>>, 0), FmtItem("lit", <<1, 2, 1>>, 0),
     FmtItem("int", <<>>, 7), FmtItem("int", <<>>, 123),
     FmtItem("str", <<>>, 0), FmtItem("str", Abc, 0)}

\* the templates format_args! builds: no literal piece follows another
Templates ==
    {t \in UNION {[1..n -> FmtItems] : n \in 0..MaxItems} :
        \A i \in 1..(Len(t) - 1) :
           ~(t[i].kind = "lit" /\ t[i + 1].kind = "lit")}

\* the fragment an item is written as: the piece itself, or what Display
\* writes for the argument
Display(item) == IF item.kind = "int" THEN Decimal(item.num) ELSE item.text

\* the bytes of the literal pieces
RECURSIVE PiecesLength(_)
PiecesLength(t) ==
    IF t = <<>> THEN 0
    ELSE (IF Head(t).kind = "lit" THEN Len(Head(t).text) ELSE 0)
           + PiecesLength(Tail(t))

\* the template has a {} argument
HasArgs(t) == \E i \in 1..Len(t) : t[i].kind # "lit"

\* below this many literal bytes a template that starts with an argument
\* is estimated at nothing
EstimateThreshold == 16

\* Arguments::estimated_capacity: the literal bytes when there are no
\* arguments; nothing when the template starts with an argument and is
\* short; else twice the literal bytes, or nothing if that overflows
EstimatedCapacity(t) ==
    IF ~HasArgs(t) THEN PiecesLength(t)
    ELSE IF t[1].kind # "lit" /\ PiecesLength(t) < EstimateThreshold THEN 0
    ELSE IF 2 * PiecesLength(t) > UsizeMax THEN 0
    ELSE 2 * PiecesLength(t)

\* output.write_fmt(args): each fragment in turn goes through write_str,
\* which is try_push_str with its error turned into fmt::Error; the first
\* error ends the writing
RECURSIVE WriteFmt(_, _, _)
WriteFmt(st, t, failAt) ==
    IF t = <<>> \/ st.res # "Ok" THEN st
    ELSE LET p == StringTryPushStr(st.data, st.cap, Display(Head(t)),
                                   st.calls + 1 # failAt)
         IN  WriteFmt([data |-> p.data, cap |-> p.cap,
                       calls |-> st.calls + p.allocs,
                       reached |-> st.reached \/ p.abort,
                       res |-> IF p.res = "Ok" THEN "Ok" ELSE "FmtError"],
                      Tail(t), failAt)

\* try_format whose write_fmt result is dropped
TryFormatResult_IgnoresWriteError(t, failAt) ==
    LET output == StringTryWithCapacity(EstimatedCapacity(t), failAt)
    IN  IF output.res # "Ok" THEN [output EXCEPT !.res = "FmtError"]
        ELSE [WriteFmt(output, t, failAt) EXCEPT !.res = "Ok"]

\* fmt::try_format: try_with_capacity(estimated_capacity), its error turned
\* into fmt::Error, then write_fmt(args)?
TryFormatResult(t, failAt) ==
    LET output == StringTryWithCapacity(EstimatedCapacity(t), failAt)
    IN  IF output.res # "Ok" THEN [output EXCEPT !.res = "FmtError"]
        ELSE WriteFmt(output, t, failAt)

\* try_format!: the caller gets the String, or the error and no String
TryFormat ==
    /\ txt = EmptyTxt
    /\ tlast.op # "try_format"
    /\ \E t \in Templates, failAt \in FailCalls :
         LET r == TryFormatResult(t, failAt)
         IN  /\ txt' = IF r.res = "Ok" THEN [data |-> r.data, cap |-> r.cap]
                       ELSE EmptyTxt
             /\ tlast' = [TRec("try_format", r.res, r.calls, r.reached)
                            EXCEPT !.arg = t, !.fail = failAt]
    /\ UNCHANGED notTxt

\* the caller drops what try_format! returned
FormatDrop ==
    /\ tlast.op = "try_format"
    /\ txt' = EmptyTxt
    /\ tlast' = TRec("new", "Ok", 0, FALSE)
    /\ UNCHANGED notTxt

NoTxt == txt = EmptyTxt /\ tlast = TRec("none", "Ok", 0, FALSE)

\* ---- duplicates and their storage
\* an allocated block holds the bytes of one str, String or Vec<u8>
FreeBlock == [used |-> FALSE, data |-> <<>>]

\* the values that get duplicated: "", "a", "ab", "abc", ...
Sources == {[i \in 1..n |-> i] : n \in 0..MaxSrc}

\* what gets appended to a duplicate: the next letter
Appendix == <<MaxSrc + 1>>

\* the types whose values get duplicated
Kinds == {"String", "str", "bytes", "CowBorrowed", "CowOwned"}

\* no duplicate yet
NoDup == [tag |-> "None", blk |-> 0, cap |-> 0]

\* the bytes of the value d within the blocks h; a String or Vec that never
\* allocated has no block and is empty
DataOf(h, d) == IF d.blk = 0 THEN <<>> ELSE h[d.blk].data

\* the allocator hands out a block that is not in use
FreshBlock(h) == CHOOSE b \in 1..MaxBlocks : ~h[b].used

\* the record kept of the last duplication or write
KRec(op, res, allocs) == [op |-> op, res |-> res, allocs |-> allocs]

\* [u8]::try_to_owned: Vec::new(), then try_copy_from_slice(self)
BytesTryToOwned(bytes, allocOk) ==
    LET r == RawTryReserve(0, 0, Len(bytes), allocOk, FALSE, 1)
    IN  IF r.res # "Ok"
        THEN [res |-> r.res, data |-> <<>>, cap |-> 0, allocs |-> r.allocs]
        ELSE [res |-> "Ok", data |-> bytes, cap |-> r.cap,
              allocs |-> r.allocs]

\* String::try_clone: String::new(), then try_push_str(self)
StringTryClone(string, allocOk) ==
    StringTryPushStr(<<>>, 0, string, allocOk)

\* the duplicate of the value at block src, by kind of value
DupData(kind, data, allocOk) ==
    IF kind = "bytes" THEN BytesTryToOwned(data, allocOk)
    ELSE IF kind = "String" THEN StringTryClone(data, allocOk)
    ELSE StrTryToOwned(data, allocOk)

\* a duplication that hands back the source's own storage
DupAt_SharesBlock(h, kind, src, allocOk) ==
    LET o == DupData(kind, h[src].data, allocOk)
    IN  IF o.res # "Ok"
        THEN [res |-> o.res, heap |-> h, dup |-> NoDup, allocs |-> o.allocs]
        ELSE [res |-> "Ok", heap |-> h,
              dup |-> [tag |-> "Owned", blk |-> src, cap |-> o.cap],
              allocs |-> o.allocs]

\* try_clone / try_to_owned of the value at block src: the duplicate is
\* built in a new String or Vec, whose storage comes from the allocator
DupAt(h, kind, src, allocOk) ==
    LET o == DupData(kind, h[src].data, allocOk)
    IN  IF o.res # "Ok"
        THEN [res |-> o.res, heap |-> h, dup |-> NoDup, allocs |-> o.allocs]
        ELSE IF o.allocs = 0
        THEN [res |-> "Ok", heap |-> h,
              dup |-> [tag |-> "Owned", blk |-> 0, cap |-> o.cap],
              allocs |-> 0]
        ELSE LET nb == FreshBlock(h)
             IN  [res |-> "Ok",
                  heap |-> [h EXCEPT ![nb] = [used |-> TRUE, data |-> o.data]],
                  dup |-> [tag |-> "Owned", blk |-> nb, cap |-> o.cap],
                  allocs |-> o.allocs]

\* String::try_push_str on the duplicate d: its bytes are written where the
\* duplicate lives; a reallocation moves them to a new block
PushAt(h, d, string, allocOk) ==
    LET p == StringTryPushStr(DataOf(h, d), d.cap, string, allocOk)
    IN  IF p.res # "Ok"
        THEN [res |-> p.res, heap |-> h, dup |-> d, allocs |-> p.allocs]
        ELSE IF p.allocs = 0
        THEN [res |-> "Ok",
              heap |-> IF d.blk = 0 THEN h
                       ELSE [h EXCEPT ![d.blk].data = p.data],
              dup |-> d, allocs |-> 0]
        ELSE LET nb == FreshBlock(h)
             IN  [res |-> "Ok",
                  heap |-> [b \in 1..MaxBlocks |->
                              IF b = nb THEN [used |-> TRUE, data |-> p.data]
                              ELSE IF b = d.blk THEN FreeBlock
                              ELSE h[b]],
                  dup |-> [d EXCEPT !.blk = nb, !.cap = p.cap],
                  allocs |-> p.allocs]

\* the caller's value at block 1 and nothing else allocated; `orig` keeps
\* what the value held when it was made
HeapInit ==
    /\ \E src \in Sources, kind \in Kinds :
         /\ heap = [b \in 1..MaxBlocks |->
                      IF b = 1 THEN [used |-> TRUE, data |-> src]
                      ELSE FreeBlock]
         /\ val = [kind |-> kind, blk |-> 1, orig |-> src]
    /\ dup = NoDup
    /\ klast = KRec("new", "Ok", 0)

\* the caller makes the next value once the duplicate has been dropped
HeapNew ==
    /\ dup.tag = "None"
    /\ klast.op = "drop"
    /\ \E src \in Sources, kind \in Kinds :
         /\ heap' = [b \in 1..MaxBlocks |->
                       IF b = 1 THEN [used |-> TRUE, data |-> src]
                       ELSE FreeBlock]
         /\ val' = [kind |-> kind, blk |-> 1, orig |-> src]
    /\ dup' = NoDup
    /\ klast' = KRec("new", "Ok", 0)
    /\ UNCHANGED notHeap

\* String::try_clone, str::try_to_owned, [u8]::try_to_owned and try_clone
\* of a Cow::Owned: a new owned value with the same bytes
Duplicate ==
    /\ dup.tag = "None"
    /\ val.kind # "CowBorrowed"
    /\ \E allocOk \in BOOLEAN :
         LET d == DupAt(heap, val.kind, val.blk, allocOk)
         IN  /\ heap' = d.heap
             /\ dup' = d.dup
             /\ klast' = KRec("duplicate", d.res, d.allocs)
    /\ UNCHANGED val
    /\ UNCHANGED notHeap

\* the wrapper over the borrowed value, or its try_clone: Borrowed over the
\* same reference
CowBorrowAt ==
    /\ dup.tag = "None"
    /\ val.kind = "CowBorrowed"
    /\ dup' = [tag |-> "Borrowed", blk |-> val.blk, cap |-> 0]
    /\ klast' = KRec("try_clone", "Ok", 0)
    /\ UNCHANGED <<heap, val>>
    /\ UNCHANGED notHeap

\* Cow::to_mut on the Borrowed wrapper: Owned(borrowed.try_to_owned()?)
CowToMutAt ==
    /\ dup.tag = "Borrowed"
    /\ \E allocOk \in BOOLEAN :
         LET d == DupAt(heap, "str", dup.blk, allocOk)
         IN  /\ heap' = d.heap
             /\ dup' = IF d.res = "Ok" THEN d.dup ELSE dup
             /\ klast' = KRec("to_mut", d.res, d.allocs)
    /\ UNCHANGED val
    /\ UNCHANGED notHeap

\* a later mutation of the duplicate: try_push_str of the next letter
MutateDup ==
    /\ dup.tag = "Owned"
    /\ Len(DataOf(heap, dup)) <= MaxSrc
    /\ \E allocOk \in BOOLEAN :
         LET p == PushAt(heap, dup, Appendix, allocOk)
         IN  /\ heap' = p.heap
             /\ dup' = p.dup
             /\ klast' = KRec("try_push_str", p.res, p.allocs)
    /\ UNCHANGED val
    /\ UNCHANGED notHeap

\* the duplicate is dropped and its block released
DropDup ==
    /\ dup.tag # "None"
    /\ heap' = IF dup.tag = "Owned" /\ dup.blk # 0
               THEN [heap EXCEPT ![dup.blk] = FreeBlock] ELSE heap
    /\ dup' = NoDup
    /\ klast' = KRec("drop", "Ok", 0)
    /\ UNCHANGED val
    /\ UNCHANGED notHeap

NoHeap ==
    /\ heap = <<>>
    /\ val = [kind |-> "none", blk |-> 0, orig |-> <<>>]
    /\ dup = NoDup
    /\ klast = KRec("none", "Ok", 0)

\* ---------------------------------------------------------- specifications
NoCow ==
    /\ cow = Moved
    /\ clast = CRec("new", "Ok", 0, 0, <<>>)
    /\ hist = HistNew(Moved)

\* the buffer alone, under every sequence of its operations
Init == VecInit /\ NoCow /\ NoTxt /\ NoHeap

Next ==
    \/ New
    \/ TryWithCapacity
    \/ TryReserve
    \/ TryReserveExact
    \/ TryPush
    \/ Pop
    \/ Truncate
    \/ Clear
    \/ TryResize
    \/ TryResizeWith
    \/ TryCopyFromSlice
    \/ TryExtendFromSlice
    \/ Drop

Spec == Init /\ [][Next]_vars

\* a longer run of pushes and pops on one buffer
PushNext ==
    \/ TryPushLong
    \/ Pop
    \/ Clear

PushSpec == Init /\ [][PushNext]_vars

\* slices of up to MaxLong elements appended to one buffer
SliceNext ==
    \/ TryExtendFromSliceLong
    \/ TryCopyFromSliceLong
    \/ Truncate
    \/ Drop
    \/ New

SliceSpec == Init /\ [][SliceNext]_vars

\* ranges drained out of one buffer, the iterator consumed from either end
\* and released at any point
DrainSpecNext ==
    \/ DrainFill
    \/ Drain
    \/ DrainNext
    \/ DrainNextBack
    \/ DrainDrop
    \/ DrainRelease
    \/ New

DrainSpec == Init /\ [][DrainSpecNext]_vars

\* the operations that take elements out of one buffer
RemoveNext ==
    \/ DrainFill
    \/ Remove
    \/ SwapRemove
    \/ Index
    \/ UnborrowedPop
    \/ UnborrowedTruncate
    \/ UnborrowedClear
    \/ Drain
    \/ DrainNext
    \/ DrainNextBack
    \/ DrainDrop
    \/ DrainRelease
    \/ New

RemoveSpec == Init /\ [][RemoveNext]_vars

\* the clone-on-write wrapper alone
CowSpecInit == VecInit /\ CowInit /\ NoTxt /\ NoHeap

CowNext ==
    \/ CowNew
    \/ ToMut
    \/ IntoOwned
    \/ OwnedTryPushStr
    \/ Deref
    \/ IsBorrowed
    \/ TryClone
    \/ TryCloneFrom

CowSpec == CowSpecInit /\ [][CowNext]_vars

\* values and their duplicates
CloneSpecInit == VecInit /\ NoCow /\ NoTxt /\ HeapInit

CloneNext ==
    \/ HeapNew
    \/ Duplicate
    \/ CowBorrowAt
    \/ CowToMutAt
    \/ MutateDup
    \/ DropDup

CloneSpec == CloneSpecInit /\ [][CloneNext]_vars

\* Strings and byte buffers
TextSpecInit == VecInit /\ NoCow /\ TxtInit /\ NoHeap

TextNext ==
    \/ TxtNew
    \/ TxtTryPushStr
    \/ TxtTryPush
    \/ TxtWrite
    \/ TryToUppercase
    \/ TryToLowercase

TextSpec == TextSpecInit /\ [][TextNext]_vars

\* a String that is reserved for and assigned to
AssignNext ==
    \/ TxtNew
    \/ TxtTryReserveExact
    \/ TxtStrTryCloneInto
    \/ TxtBytesTryCloneInto
    \/ TxtStringTryCloneFrom
    \/ TxtBlanketTryCloneInto
    \/ TxtCowTryCloneFrom

AssignSpec == TextSpecInit /\ [][AssignNext]_vars

\* strings built by try_format!
FormatNext ==
    \/ TryFormat
    \/ FormatDrop

FormatSpec == TextSpecInit /\ [][FormatNext]_vars

\* ------------------------------------------------------------- well-formed
TypeOK ==
    /\ alive \in BOOLEAN
    /\ len \in 0..MaxAlloc
    /\ cap \in 0..MaxAlloc
    /\ Len(buf) = cap
    /\ \A i \in 1..Len(drops) : drops[i] \in Vals
    /\ cow.tag \in {"Borrowed", "Owned", "Moved"}

\* ------------------------------------------------------------ properties
\* the operations that may change the capacity
CapOps == {"try_reserve", "try_reserve_exact", "try_push", "try_resize",
           "try_resize_with", "try_extend_from_slice", "try_copy_from_slice"}

\* the operations that write elements one by one under the length guard
GuardedOps == {"try_resize", "try_resize_with", "try_extend_from_slice"}

\* the step left length, capacity and every slot as they were
BufferUnchanged == len' = len /\ cap' = cap /\ buf' = buf

\* the step kept the elements of [0, len) in place
PrefixKept == len' >= len /\ SubSeq(buf', 1, len) = SubSeq(buf, 1, len)

\* I1: exactly the slots of [0, len) hold initialized elements
I1 ==
    /\ 0 <= len /\ len <= cap /\ Len(buf) = cap
    /\ \A i \in 1..cap : (i <= len) <=> (buf[i] # Uninit)

\* C1 as stated: a capacity-changing operation that returns an error leaves
\* length, capacity and contents exactly as they were before the call
C1_AnyErrorLeavesBufferUnchanged ==
    [][(last'.op \in CapOps /\ last'.res # "Ok") => BufferUnchanged]_vars

\* C1 amended: an error from the reservation leaves length, capacity and
\* contents as they were; an error from an element production of try_resize,
\* try_resize_with or try_extend_from_slice comes after the reservation, so
\* the capacity may have grown and the elements written before the failure
\* follow the original ones, which are kept in place
C1_ErrorKeepsOriginalElements ==
    [][(last'.op \in CapOps /\ last'.res # "Ok") =>
         /\ last'.at \in {"reserve", "element"}
         /\ last'.at = "reserve" => BufferUnchanged
         /\ last'.at = "element" =>
              /\ last'.op \in GuardedOps
              /\ PrefixKept
              /\ cap' >= cap
              /\ len' = len + last'.fail - 1
              /\ \A i \in (len' + 1)..cap' : buf'[i] = Uninit]_vars

\* a guarded bulk write failed after it had grown the buffer and had
\* written an element
C1_Witness ==
    /\ last.op \in GuardedOps
    /\ last.at = "element"
    /\ last.allocs = 1
    /\ last.writes >= 1

\* what the generator of the recorded resize yields at its j-th call
Produced(rec, j) ==
    IF rec.op = "try_resize" THEN rec.given ELSE Closure(rec.given, j, 0)

\* C2: when the generator of try_resize / try_resize_with fails at its k-th
\* production after the reservation, the buffer holds its L original
\* elements followed by the first k-1 productions in order, nothing lies
\* beyond the length, and a drop of the buffer right after destroys exactly
\* those L + k - 1 elements, each once
C2_PartialExtendKeepsProduced ==
    [][/\ (last'.op \in {"try_resize", "try_resize_with"}
             /\ last'.at = "element") =>
            /\ last'.fail \in 1..(last'.arg - len)
            /\ len' = len + last'.fail - 1
            /\ SubSeq(buf', 1, len) = Contents
            /\ \A j \in 1..(last'.fail - 1) :
                 buf'[len + j] = Produced(last', j)
            /\ \A i \in (len' + 1)..cap' : buf'[i] = Uninit
       /\ (last.op \in {"try_resize", "try_resize_with"}
             /\ last.at = "element" /\ last'.op = "drop") =>
            /\ Len(drops') = len
            /\ drops' = Contents]_vars

\* try_resize_with failed at its second or a later production on a buffer
\* that already held elements
C2_Witness ==
    /\ last.op = "try_resize_with"
    /\ last.at = "element"
    /\ last.fail >= 2
    /\ len > last.writes
    /\ last.writes = last.fail - 1

\* C3: at every operation boundary 0 <= len <= cap and exactly the slots of
\* [0, len) are initialized, and the length a bulk write leaves behind is
\* the length it started from plus the element writes it completed
C3_LengthTracksInitializedSlots ==
    /\ []I1
    /\ [][(/\ last'.op \in GuardedOps \cup {"try_copy_from_slice"}
           /\ \/ last'.op \in {"try_extend_from_slice", "try_copy_from_slice"}
              \/ last'.arg > len) =>
            len' = len + last'.writes]_vars

\* try_extend_from_slice returned an error after it had written an element
C3_Witness ==
    /\ last.op = "try_extend_from_slice"
    /\ last.at = "element"
    /\ last.writes >= 1
    /\ len >= 2

\* C4: try_reserve / try_reserve_exact returning an error (allocator failure
\* or capacity overflow) leave length, capacity and all slots as they were
C4_FailedReserveHasNoEffect ==
    [][(last'.op \in {"try_reserve", "try_reserve_exact"}
          /\ last'.res # "Ok") => BufferUnchanged]_vars

\* a reservation on a non-empty, allocated buffer was refused by the allocator
C4_Witness ==
    /\ last.op \in {"try_reserve", "try_reserve_exact"}
    /\ last.res = "AllocError"
    /\ last.allocs = 1
    /\ len > 0
    /\ cap > 0

\* C5 as stated: a failing try_push hands value back to the caller, does not
\* destroy it, and leaves the buffer unchanged
C5_FailedPushReturnsValue ==
    [][(last'.op = "try_push" /\ last'.res # "Ok") =>
         /\ BufferUnchanged
         /\ last'.ret = last'.given
         /\ drops' = <<>>]_vars

\* C5 amended: try_push fails exactly when len == cap and the reserve(1) it
\* then makes fails; in that case the buffer is unchanged and value, which
\* the call owns, is destroyed exactly once and not handed back
C5_FailedPushDestroysValue ==
    [][last'.op = "try_push" =>
         /\ len < cap => (last'.res = "Ok" /\ last'.allocs = 0)
         /\ len = cap =>
              \E ok \in BOOLEAN :
                 LET r == StdTryReserve(len, cap, 1, ok)
                 IN  last'.res = r.res /\ last'.allocs = r.allocs
                       /\ cap' = r.cap
         /\ last'.res = "Ok" => drops' = <<>>
         /\ last'.res # "Ok" =>
              /\ BufferUnchanged
              /\ last'.ret = Uninit
              /\ drops' = <<last'.given>>]_vars

\* try_push failed on a full, non-empty buffer and destroyed its value
C5_Witness ==
    /\ last.op = "try_push"
    /\ last.res = "AllocError"
    /\ len = cap
    /\ len > 0
    /\ drops = <<last.given>>

\* C6: try_reserve(k) never decreases the capacity, gives cap >= len + k
\* whenever it returns Ok, and with cap - len >= k beforehand returns Ok
\* without calling the allocator and without changing anything
C6_ReserveMonotonic ==
    [][last'.op = "try_reserve" =>
         /\ cap' >= cap
         /\ last'.res = "Ok" => cap' >= len' + last'.arg
         /\ cap - len >= last'.arg =>
              /\ last'.res = "Ok"
              /\ last'.allocs = 0
              /\ BufferUnchanged]_vars

\* try_reserve grew a non-empty buffer beyond its old capacity
C6_Witness ==
    /\ last.op = "try_reserve"
    /\ last.res = "Ok"
    /\ last.allocs = 1
    /\ last.arg > 0
    /\ len > 0
    /\ cap >= 2 * MinNonZeroCap

\* C7: try_push returning Ok on a buffer of length L makes the length L + 1,
\* puts value in slot L and keeps [0, L) as it was; below the largest
\* capacity a push fails only when the allocator was called and failed, so
\* with a never-failing allocator five pushes from empty give five elements
C7_PushAppends ==
    [][last'.op = "try_push" =>
         /\ last'.res = "Ok" =>
              /\ len' = len + 1
              /\ buf'[len + 1] = last'.given
              /\ SubSeq(buf', 1, len) = Contents
              /\ Contents' = Append(Contents, last'.given)
         /\ (last'.res # "Ok" /\ 2 * cap <= MaxAlloc) =>
              (last'.res = "AllocError" /\ last'.allocs = 1)]_vars

\* the fifth push onto a buffer that started empty with capacity 0
C7_Witness ==
    /\ last.op = "try_push"
    /\ last.res = "Ok"
    /\ len = 5
    /\ cap = 2 * MinNonZeroCap
    /\ buf[5] = last.given
    /\ last.pre = SubSeq(buf, 1, 4)

\* C8: a pop right after a successful try_push(v) returns Some(v) and leaves
\* the length and contents the buffer had before the push
C8_PushThenPop ==
    [][(JustPushed /\ last'.op = "pop") =>
         /\ last'.res = "Some"
         /\ last'.ret = last.given
         /\ len' = Len(last.pre)
         /\ Contents' = last.pre]_vars

\* a pop gave back the value just pushed onto a non-empty buffer
C8_Witness ==
    /\ last.op = "pop"
    /\ last.res = "Some"
    /\ last.given # Uninit
    /\ last.ret = last.given
    /\ len > 0
    /\ Contents = last.pre

\* C9: to_mut on a Borrowed wrapper calls try_to_owned once; on success the
\* wrapper is Owned with a copy equal to the borrowed data and that value is
\* what is handed out; on failure the wrapper is still Borrowed over the
\* same reference and the failure is returned
C9_ToMutOnBorrowed ==
    [][(clast'.op = "to_mut" /\ cow.tag = "Borrowed") =>
         /\ clast'.toOwned = 1
         /\ clast'.res = "Ok" =>
              /\ cow'.tag = "Owned"
              /\ cow'.data = cow.ref.data
              /\ clast'.ret = cow'.data
         /\ clast'.res # "Ok" =>
              /\ cow' = cow
              /\ clast'.res = "AllocError"]_vars

\* to_mut failed and left the wrapper Borrowed
C9_Witness ==
    /\ clast.op = "to_mut"
    /\ clast.res = "AllocError"
    /\ clast.toOwned = 1
    /\ cow.tag = "Borrowed"

\* C10: on an Owned wrapper to_mut and into_owned return the owned value,
\* call neither try_to_owned nor the allocator and cannot fail
C10_OwnedNeedsNoDuplication ==
    [][(cow.tag = "Owned" /\ clast'.op \in {"to_mut", "into_owned"}) =>
         /\ clast'.res = "Ok"
         /\ clast'.toOwned = 0
         /\ clast'.allocs = 0
         /\ clast'.ret = cow.data
         /\ clast'.op = "to_mut" => cow' = cow]_vars

\* into_owned gave up a non-empty owned value without duplicating it
C10_Witness ==
    /\ clast.op = "into_owned"
    /\ clast.res = "Ok"
    /\ clast.toOwned = 0
    /\ Len(clast.ret) > 0

\* the operations that read a wrapper or write through the reference to_mut
\* handed out, and so never replace the wrapper
KeepingOps == {"to_mut", "deref", "is_borrowed", "try_clone", "try_push_str"}

\* C11 as stated: whatever the operation and its source, a wrapper that is
\* Owned is not Borrowed after the next operation on it
C11_OwnedNeverBorrowedAgain ==
    [][cow.tag = "Owned" => cow'.tag # "Borrowed"]_vars

\* C11 amended: an Owned wrapper stays Owned under to_mut, deref,
\* is_borrowed, try_clone, writes through the to_mut reference, and under a
\* try_clone_from that fails or whose source is Owned; try_clone_from with a
\* Borrowed source always returns Ok and replaces the wrapper by a Borrowed
\* one over the source's reference, and that is the only way back
C11_OwnedUntilAssignedBorrowed ==
    [][cow.tag = "Owned" =>
         /\ clast'.op \in KeepingOps => cow'.tag = "Owned"
         /\ clast'.op = "try_clone_from" =>
              /\ (clast'.src.tag = "Owned" \/ clast'.res # "Ok") =>
                   cow'.tag = "Owned"
              /\ clast'.src.tag = "Borrowed" =>
                   (clast'.res = "Ok" /\ cow' = clast'.src)
         /\ cow'.tag = "Borrowed" =>
              (clast'.op = "try_clone_from" /\ clast'.src.tag = "Borrowed")]_vars

\* a wrapper that to_mut had made Owned is Borrowed again after a
\* try_clone_from with a Borrowed source
C11_Witness ==
    /\ hist.born = "Borrowed"
    /\ hist.first = "Ok"
    /\ clast.op = "try_clone_from"
    /\ clast.res = "Ok"
    /\ clast.src.tag = "Borrowed"
    /\ cow = clast.src

\* the wrapper has only been read and asked for mutable access
OnlyAccessed == ~hist.others

\* C12: a wrapper constructed from a borrow and only read has made no
\* try_to_owned call and is still Borrowed; one whose first to_mut
\* succeeded has made exactly one, however many to_mut calls and writes
\* followed; and a read never calls try_to_owned nor changes the wrapper
C12_LazyDuplication ==
    /\ [](/\ (hist.born = "Borrowed" /\ hist.first = "" /\ OnlyAccessed) =>
              (hist.calls = 0 /\ cow.tag = "Borrowed")
          /\ (hist.born = "Borrowed" /\ hist.first = "Ok" /\ OnlyAccessed) =>
              (hist.calls = 1 /\ cow.tag = "Owned"))
    /\ [][clast'.op \in {"deref", "is_borrowed"} =>
            (clast'.toOwned = 0 /\ clast'.allocs = 0 /\ cow' = cow)]_vars

\* a further to_mut on a wrapper whose first to_mut had duplicated the data
C12_Witness ==
    /\ hist.born = "Borrowed"
    /\ hist.first = "Ok"
    /\ OnlyAccessed
    /\ hist.calls = 1
    /\ clast.op = "to_mut"
    /\ clast.toOwned = 0

\* C13: try_clone leaves the wrapper as it was; on a Borrowed wrapper it
\* returns Ok with a Borrowed wrapper over the same reference and calls
\* neither try_to_owned nor the allocator; on an Owned one it calls
\* try_to_owned once and returns an Owned wrapper with equal data, or the
\* failure of that call and no wrapper
C13_TryCloneByVariant ==
    [][clast'.op = "try_clone" =>
         /\ cow' = cow
         /\ cow.tag = "Borrowed" =>
              /\ clast'.res = "Ok"
              /\ clast'.out = Borrowed(cow.ref)
              /\ clast'.toOwned = 0
              /\ clast'.allocs = 0
         /\ cow.tag = "Owned" =>
              /\ clast'.toOwned = 1
              /\ clast'.res = "Ok" =>
                   (clast'.out.tag = "Owned" /\ clast'.out.data = cow.data)
              /\ clast'.res # "Ok" =>
                   (clast'.res = "AllocError" /\ clast'.out = Moved)]_vars

\* try_clone duplicated a non-empty Owned wrapper
C13_Witness ==
    /\ clast.op = "try_clone"
    /\ clast.res = "Ok"
    /\ cow.tag = "Owned"
    /\ Len(cow.data) > 0
    /\ clast.out.tag = "Owned"
    /\ clast.out.data = cow.data
    /\ clast.toOwned = 1

\* the value that was duplicated still lives in its block and holds what it
\* held when it was made
SourceIntact == heap[val.blk].used /\ heap[val.blk].data = val.orig

\* C14: a duplicate made by String::try_clone, str::try_to_owned,
\* [u8]::try_to_owned, try_clone of a Cow or Cow::to_mut is equal to the
\* value it was made from, and whatever is later appended to the duplicate,
\* the value still holds what it held; so the Cow over borrowed "abc" holds
\* owned "abc" after to_mut and the source is still "abc" once the Cow
\* holds "abcd"
C14_DuplicateEqualAndIndependent ==
    /\ []SourceIntact
    /\ [][(klast'.op \in {"duplicate", "try_clone", "to_mut"}
             /\ klast'.res = "Ok") =>
            DataOf(heap', dup') = val.orig]_vars
    /\ [][(klast'.op = "try_push_str" /\ klast'.res = "Ok") =>
            /\ DataOf(heap', dup') = DataOf(heap, dup) \o Appendix
            /\ heap'[val.blk] = heap[val.blk]]_vars

\* the Cow over borrowed "abc" holds owned "abcd" and the source is "abc"
C14_Witness ==
    /\ val.kind = "CowBorrowed"
    /\ val.orig = <<1, 2, 3>>
    /\ dup.tag = "Owned"
    /\ DataOf(heap, dup) = <<1, 2, 3, 4>>
    /\ heap[val.blk].data = <<1, 2, 3>>
    /\ dup.blk # val.blk

\* the operation reached the growth path of an infallible push, or the
\* process was aborted on it
ReachedAbortingPath == tlast.abort \/ tlast.res = "Abort"

\* C15: no fallible entry point ever reaches the infallible growth path;
\* exhaustion is always reported as an error value
C15_NeverReachesAbortingPath == ~ReachedAbortingPath

\* apart from the case conversions, the String and Vec<u8> entry points
\* write only into room a fallible reservation has made
AppendsAreCovered ==
    tlast.op \notin {"try_to_uppercase", "try_to_lowercase"} =>
        ~ReachedAbortingPath

\* I2: the capacity in bytes is at most isize::MAX
I2 == cap * ElemSize <= IsizeMax

\* the size a reservation of `additional` more slots on length l requires
\* does not fit: the count overflows usize or its bytes exceed isize::MAX
Overflows(l, additional) ==
    \/ l + additional > UsizeMax
    \/ (l + additional) * ElemSize > IsizeMax

C17_ExtendFromSlice ==
    [][/\ last'.op = "try_extend_from_slice" =>
            /\ SubSeq(buf', 1, len) = Contents
            /\ last'.res = "Ok" =>
                 /\ len' = len + Len(last'.other)
                 /\ Contents' = Contents \o last'.other
            /\ last'.at = "reserve" => BufferUnchanged
            /\ last'.at = "element" =>
                 /\ last'.res = "AllocError"
                 /\ last'.fail \in 1..Len(last'.other)
                 /\ len' = len + last'.fail - 1
                 /\ Contents' =
                      Contents \o SubSeq(last'.other, 1, last'.fail - 1)
                 /\ last'.writes = last'.fail - 1
                 /\ \A i \in (len' + 1)..cap' : buf'[i] = Uninit
       /\ (last.op = "try_extend_from_slice" /\ last.at = "element"
             /\ last'.op = "drop") =>
            drops' = Contents]_vars

\* the third clone of a five-element slice failed on a buffer that held
\* elements, and two clones were appended
C17_Witness ==
    /\ last.op = "try_extend_from_slice"
    /\ last.at = "element"
    /\ Len(last.other) = 5
    /\ last.fail = 3
    /\ last.writes = 2
    /\ len >= 3
    /\ SubSeq(buf, len - 1, len) = SubSeq(last.other, 1, 2)

\* C18: try_copy_from_slice(other) fails exactly when its reservation of
\* other.len() more slots fails, and then the buffer is unchanged;
\* otherwise the existing elements stay as they are, all of other follows
\* them and the length has advanced by other.len(): after the call the
\* buffer holds none or all of other, never a part of it
C18_CopyFromSliceAllOrNothing ==
    [][last'.op = "try_copy_from_slice" =>
         /\ \E ok \in BOOLEAN :
              LET r == StdTryReserve(len, cap, Len(last'.other), ok)
              IN  /\ last'.res = r.res
                  /\ last'.allocs = r.allocs
                  /\ cap' = r.cap
         /\ last'.res # "Ok" =>
              (BufferUnchanged /\ last'.writes = 0)
         /\ last'.res = "Ok" =>
              /\ len' = len + Len(last'.other)
              /\ SubSeq(buf', 1, len) = Contents
              /\ Contents' = Contents \o last'.other
              /\ last'.writes = Len(last'.other)
         /\ len' \in {len, len + Len(last'.other)}]_vars

\* a slice of several elements was copied after the elements of a buffer
\* that had to grow for it
C18_Witness ==
    /\ last.op = "try_copy_from_slice"
    /\ last.res = "Ok"
    /\ last.allocs = 1
    /\ Len(last.other) >= 2
    /\ len > Len(last.other)
    /\ SubSeq(buf, len - Len(last.other) + 1, len) = last.other

\* C19: try_resize_with(new_len, f) on a buffer of length L: with
\* new_len <= L it truncates to new_len, destroying [new_len, L), never
\* calls f, never calls the allocator and returns Ok; with new_len > L and
\* Ok returned, f was called new_len - L times, the length is new_len,
\* [0, L) is unchanged and the appended elements are what f returned, in
\* the order it returned them
C19_ResizeWith ==
    [][last'.op = "try_resize_with" =>
         /\ last'.arg <= len =>
              /\ last'.res = "Ok"
              /\ last'.calls = 0
              /\ last'.allocs = 0
              /\ len' = last'.arg
              /\ cap' = cap
              /\ Contents' = SubSeq(Contents, 1, last'.arg)
              /\ drops' = SubSeq(Contents, last'.arg + 1, len)
         /\ (last'.arg > len /\ last'.res = "Ok") =>
              /\ last'.calls = last'.arg - len
              /\ len' = last'.arg
              /\ SubSeq(buf', 1, len) = Contents
              /\ \A j \in 1..(last'.arg - len) :
                   buf'[len + j] = Closure(last'.given, j, 0)
              /\ drops' = <<>>]_vars

\* try_resize_with appended two different elements, in the order f returned
\* them, to a buffer that held one
C19_Witness ==
    /\ last.op = "try_resize_with"
    /\ last.res = "Ok"
    /\ last.calls = 2
    /\ len = 3
    /\ last.arg = 3
    /\ buf[2] = last.given
    /\ buf[3] # last.given

\* the positions a sequence of positions lists
Positions(q) == {q[i] : i \in 1..Len(q)}

\* C20: when the iterator of drain(a..b) on a buffer of length L is
\* released, the buffer holds the former [0, a) followed by the former
\* [b, L), in order, its length is L - (b - a), no slot behind it holds an
\* element and no allocator call was made; every position of [a, b) was
\* yielded once or is destroyed now, never both, however many the caller
\* took; and every element the iterator yields is the one of a position of
\* [a, b) it had not yielded before
C20_DrainRemovesRange ==
    [][/\ last'.op = "drain_drop" =>
            LET o == last'.pre
                a == last'.range[1]
                b == last'.range[2]
                L == Len(last'.pre)
                t == last'.taken
                left == (a + 1..b) \ Positions(t)
            IN  /\ iter.live /\ ~iter'.live
                /\ Contents' = SubSeq(o, 1, a) \o SubSeq(o, b + 1, L)
                /\ len' = L - (b - a)
                /\ \A i \in (len' + 1)..cap' : buf'[i] = Uninit
                /\ cap' = cap
                /\ last'.res = "Ok" /\ last'.allocs = 0
                /\ Positions(t) \subseteq a + 1..b
                /\ Cardinality(Positions(t)) = Len(t)
                /\ Len(drops') = Cardinality(left)
                /\ \E lo \in a..b : \E hi \in lo..b :
                     /\ left = lo + 1..hi
                     /\ drops' = SubSeq(o, lo + 1, hi)
       /\ (last'.op \in {"drain_next", "drain_next_back"}
             /\ last'.res = "Some") =>
            \E p \in (iter.start + 1..iter.end) \ Positions(iter.taken) :
               /\ iter'.taken = Append(iter.taken, p)
               /\ last'.ret = iter.orig[p]
               /\ buf'[p] = Uninit]_vars

\* a Drain over the two middle elements of four was released after the
\* caller had taken one of them: the other one was destroyed and the last
\* element moved down behind the first
C20_Witness ==
    /\ last.op = "drain_drop"
    /\ Len(last.pre) = 4
    /\ last.range = <<1, 3>>
    /\ Len(last.taken) = 1
    /\ Len(drops) = 1
    /\ len = 2
    /\ last.pre[1] # last.pre[4]
    /\ Contents = <<last.pre[1], last.pre[4]>>

\* the results that report a failed allocation
AllocFailures == {"AllocError", "CapacityOverflow"}

\* C21: with index < length, remove(index) returns the element at index
\* and shifts the later ones down by one in order, and swap_remove(index)
\* returns it and puts the former last element in its place; both shorten
\* the buffer by one and keep the capacity.  With index >= length both
\* panic: no element is returned, no allocation failure is reported and
\* the buffer is as it was
C21_IndexedRemoval ==
    [][last'.op \in {"remove", "swap_remove"} =>
         LET index == last'.arg
         IN  /\ cap' = cap
             /\ last'.allocs = 0
             /\ last'.res \notin AllocFailures
             /\ index < len =>
                  /\ last'.res = "Ok"
                  /\ last'.ret = Contents[index + 1]
                  /\ len' = len - 1
                  /\ \A i \in (len' + 1)..cap' : buf'[i] = Uninit
                  /\ last'.op = "remove" =>
                       Contents' = SubSeq(Contents, 1, index)
                                     \o SubSeq(Contents, index + 2, len)
                  /\ last'.op = "swap_remove" =>
                       Contents' = [i \in 1..(len - 1) |->
                                      IF i = index + 1 THEN Contents[len]
                                      ELSE Contents[i]]
             /\ index >= len =>
                  /\ last'.res = "Panic"
                  /\ last'.ret = Uninit
                  /\ BufferUnchanged]_vars

\* remove(0) on three elements, the last two of them different, left
\* those two in their order
C21_Witness ==
    /\ last.op = "remove"
    /\ last.res = "Ok"
    /\ last.arg = 0
    /\ Len(last.pre) = 3
    /\ last.pre[2] # last.pre[3]
    /\ last.ret = last.pre[1]
    /\ Contents = <<last.pre[2], last.pre[3]>>

\* C22: truncate(new_len) on a buffer of length L: with new_len < L the
\* elements of [new_len, L) are destroyed, each once, those of
\* [0, new_len) stay and the length becomes new_len; with new_len >= L
\* nothing changes and nothing is destroyed; the capacity stays either way
C22_Truncate ==
    [][last'.op = "truncate" =>
         LET new_len == last'.arg
         IN  /\ cap' = cap
             /\ last'.res = "Ok"
             /\ new_len < len =>
                  /\ drops' = SubSeq(Contents, new_len + 1, len)
                  /\ Len(drops') = len - new_len
                  /\ Contents' = SubSeq(Contents, 1, new_len)
                  /\ len' = new_len
                  /\ \A i \in (new_len + 1)..cap' : buf'[i] = Uninit
             /\ new_len >= len =>
                  /\ BufferUnchanged
                  /\ drops' = <<>>]_vars

\* truncate(1) destroyed the last two of three elements
C22_Witness ==
    /\ last.op = "truncate"
    /\ last.arg = 1
    /\ len = 1
    /\ Len(drops) = 2
    /\ cap >= 3
    /\ buf[1] # Uninit

\* the operations that take nothing from the allocator
NonAllocOps == {"pop", "truncate", "clear", "index", "swap_remove", "remove",
                "drain", "drain_next", "drain_next_back", "drain_drop"}

\* C23: pop, truncate, clear, indexed access, swap_remove, remove and
\* drain (the call, each element taken and the release) make no allocator
\* call, leave the capacity as it was and never report a failed
\* allocation, in whatever state earlier failed allocations left the
\* buffer; pop on an empty buffer returns None and leaves it unchanged
C23_NoAllocationInRemovals ==
    [][/\ last'.op \in NonAllocOps =>
            /\ last'.allocs = 0
            /\ cap' = cap
            /\ Len(buf') = Len(buf)
            /\ last'.res \notin AllocFailures
       /\ (last'.op = "pop" /\ len = 0) =>
            /\ last'.res = "None"
            /\ last'.ret = Uninit
            /\ BufferUnchanged]_vars

\* pop returned None on an empty buffer that owns storage
C23_Witness ==
    /\ last.op = "pop"
    /\ last.res = "None"
    /\ len = 0
    /\ cap > 0

\* the fragments of a template, one after the other
RECURSIVE Concatenation(_)
Concatenation(t) ==
    IF t = <<>> THEN <<>> ELSE Display(Head(t)) \o Concatenation(Tail(t))

\* C24: try_format reserves the estimated capacity first and then appends
\* the fragments in order: Ok comes with the concatenation of all
\* fragments ("{}" with 123 gives "123", with "abc" gives "abc") in a
\* String of at least the estimated capacity; when the first reservation
\* or an append cannot allocate, an error comes with no String at all;
\* and the infallible growth path is never reached
C24_TryFormat ==
    /\ TryFormatResult(<<FmtItem("int", <<>>, 123)>>, 0).data
         = <<Digit(1), Digit(2), Digit(3)>>
    /\ TryFormatResult(<<FmtItem("str", Abc, 0)>>, 0).data = Abc
    /\ tlast.op = "try_format" =>
         /\ ~tlast.abort
         /\ tlast.res \in {"Ok", "FmtError"}
         /\ tlast.res = "Ok" =>
              /\ txt.data = Concatenation(tlast.arg)
              /\ txt.cap >= EstimatedCapacity(tlast.arg)
              /\ txt.cap >= Len(txt.data)
         /\ tlast.res = "FmtError" => txt = EmptyTxt
         /\ (tlast.fail \in 1..tlast.allocs) <=> tlast.res = "FmtError"

\* a template of a literal, 123 and "abc" was formatted in full after two
\* allocator calls, one for the estimated capacity and one for an append,
\* and the same template gives an error when the second call fails
C24_Witness ==
    /\ tlast.op = "try_format"
    /\ tlast.res = "Ok"
    /\ Len(tlast.arg) = 3
    /\ tlast.arg[1].kind = "lit"
    /\ tlast.arg[2] = FmtItem("int", <<>>, 123)
    /\ tlast.arg[3] = FmtItem("str", Abc, 0)
    /\ tlast.allocs = 2
    /\ TryFormatResult(tlast.arg, 2).res = "FmtError"

\* the operations that may take storage from the allocator
GrowOps == CapOps \cup {"try_with_capacity"}

\* C25: a buffer made by new() has length 0 and capacity 0 and no
\* allocator call was made for it; and as long as the buffer lives its
\* capacity never decreases and changes only in a growing operation, also
\* when that operation returned an error partway through its writes
C25_CapacityOnlyGrows ==
    /\ [](last.op = "new" =>
             len = 0 /\ cap = 0 /\ buf = <<>> /\ last.allocs = 0)
    /\ [][(alive /\ alive') =>
             /\ cap' >= cap
             /\ cap' # cap => last'.op \in GrowOps /\ last'.allocs = 1
             /\ last'.op \notin GrowOps => cap' = cap]_vars

\* a try_resize took new storage and then failed at a clone: the buffer
\* keeps the grown capacity
C25_Witness ==
    /\ last.op = "try_resize"
    /\ last.res = "AllocError"
    /\ last.at = "element"
    /\ last.allocs = 1
    /\ cap >= last.arg
    /\ len < last.arg

\* C26: try_resize(new_len, value) growing the buffer by n > 0 calls
\* try_clone n - 1 times and moves value into the last slot, so that with
\* n = 1 only the reservation can fail; after Ok the n appended elements
\* equal value.  On every path (Ok, failed reservation, failed clone,
\* truncation) value is either moved into the buffer or destroyed, once
C26_ResizeConsumesValue ==
    [][last'.op = "try_resize" =>
         LET n == last'.arg - len
             value == last'.given
             grown == n > 0 /\ last'.res = "Ok"
             truncated == IF n > 0 THEN 0 ELSE len - last'.arg
             moved == IF grown THEN 1 ELSE 0
             destroyed == Len(drops') - truncated
         IN  /\ grown =>
                  /\ last'.calls = n - 1
                  /\ last'.writes = n
                  /\ len' = len + n
                  /\ \A i \in (len + 1)..len' : buf'[i] = value
                  /\ SubSeq(buf', 1, len) = Contents
             /\ (n = 1 /\ last'.res # "Ok") =>
                  last'.at = "reserve" /\ last'.calls = 0
             /\ (n > 0 /\ last'.at = "element") =>
                  /\ last'.calls = last'.fail
                  /\ last'.fail <= n - 1
                  /\ len' = len + last'.fail - 1
             /\ n <= 0 => last'.calls = 0 /\ last'.res = "Ok"
             /\ moved + destroyed = 1
             /\ destroyed = 1 => drops'[Len(drops')] = value
             /\ SubSeq(drops', 1, truncated)
                  = SubSeq(Contents, len - truncated + 1, len)]_vars

\* try_resize grew a buffer of one element by two: one clone, and the
\* value itself in the last slot, nothing destroyed
C26_Witness ==
    /\ last.op = "try_resize"
    /\ last.res = "Ok"
    /\ last.arg = 3
    /\ len = 3
    /\ last.writes = 2
    /\ last.calls = 1
    /\ buf[2] = last.given /\ buf[3] = last.given
    /\ buf[1] # last.given
    /\ drops = <<>>

\* the copy-assignments that refill the target in place
AssignOps == {"str::try_clone_into", "[u8]::try_clone_into",
              "String::try_clone_from", "T::try_clone_into"}

\* C27: whenever str::try_clone_into, [u8]::try_clone_into,
\* String::try_clone_from or the blanket try_clone_into returns Ok, the
\* target holds what the default target = try_to_owned(source) would have
\* put there: the source's content and nothing of what the target held
C27_AssignmentRefinesDefault ==
    [][(tlast'.op \in AssignOps /\ tlast'.res = "Ok") =>
         /\ txt'.data = tlast'.arg
         /\ txt'.data
              = DefaultTryCloneInto(tlast'.arg, txt.data, txt.cap, TRUE).data
         /\ txt'.cap >= Len(txt'.data)
         /\ ~tlast'.abort]_vars

\* String::try_clone_from put a shorter source in place of two bytes
C27_Witness ==
    /\ tlast.op = "String::try_clone_from"
    /\ tlast.res = "Ok"
    /\ Len(tlast.pre) = 2
    /\ Len(tlast.arg) = 1
    /\ tlast.arg[1] # tlast.pre[1]
    /\ txt.data = tlast.arg

\* C28: when str::try_clone_into, [u8]::try_clone_into,
\* String::try_clone_from, the blanket try_clone_into or Cow::try_clone_from
\* between two Owned wrappers returns an error, the target was cleared
\* before: it is empty, with the capacity it had, and holds neither what it
\* held nor a part of the source; the default
\* target = try_to_owned(source) would have left the target as it was
C28_FailedAssignmentClearsTarget ==
    [][(tlast'.op \in AssignOps \cup {"Cow::try_clone_from"}
          /\ tlast'.res # "Ok") =>
         /\ txt'.data = <<>>
         /\ txt'.cap = txt.cap
         /\ tlast'.res \in AllocFailures
         /\ LET d == DefaultTryCloneInto(tlast'.arg, txt.data, txt.cap, FALSE)
            IN  d.res # "Ok" /\ d.data = txt.data /\ d.cap = txt.cap]_vars

\* a Cow::try_clone_from between Owned wrappers failed and left the
\* target, which held a byte, empty with its capacity
C28_Witness ==
    /\ tlast.op = "Cow::try_clone_from"
    /\ tlast.res = "AllocError"
    /\ Len(tlast.pre) > 0
    /\ Len(tlast.arg) > Len(tlast.pre)
    /\ txt.data = <<>>
    /\ txt.cap > 0

\* C29: after Cow::try_clone_from(source) returned Ok, self has the
\* variant of source and dereferences to the same data.  With self and
\* source both Owned the String self owns is refilled in place by
\* try_clone_into: no try_to_owned call, and the storage is kept when it
\* is large enough.  In every other combination self becomes
\* source.try_clone(), and an error leaves self as it was
C29_CloneFromFollowsSource ==
    [][clast'.op = "try_clone_from" =>
         LET src == clast'.src
             inPlace == cow.tag = "Owned" /\ src.tag = "Owned"
         IN  /\ clast'.res = "Ok" =>
                  /\ cow'.tag = src.tag
                  /\ DerefResult(cow') = DerefResult(src)
             /\ inPlace =>
                  /\ clast'.toOwned = 0
                  /\ cow'.tag = "Owned"
                  /\ cow'.cap >= cow.cap
                  /\ cow.cap >= Len(src.data) =>
                       /\ clast'.res = "Ok"
                       /\ clast'.allocs = 0
                       /\ cow'.cap = cow.cap
             /\ ~inPlace =>
                  /\ clast'.res = "Ok" =>
                       cow' = TryCloneResult(src, TRUE).out
                  /\ clast'.res # "Ok" => cow' = cow
                  /\ src.tag = "Borrowed" =>
                       /\ clast'.res = "Ok"
                       /\ cow' = Borrowed(src.ref)
                       /\ clast'.allocs = 0
                  /\ src.tag = "Owned" => clast'.toOwned = 1]_vars

\* an Owned wrapper was refilled in place from an Owned source: no
\* try_to_owned call, no allocator call, and it holds the source's data
C29_Witness ==
    /\ clast.op = "try_clone_from"
    /\ clast.res = "Ok"
    /\ clast.src.tag = "Owned"
    /\ cow.tag = "Owned"
    /\ clast.toOwned = 0
    /\ clast.allocs = 0
    /\ Len(cow.data) > 0
    /\ cow.data = clast.src.data

\* the bytes the String can take without new storage
Room == txt.cap - Len(txt.data)

\* C30: String::try_push(ch) asks for room for size_of::<char>() = 4 more
\* bytes whatever ch is encoded in: with less room than 4 the allocator is
\* called (or the capacity overflows), and a failure returns the error
\* with the String unchanged; after a successful reservation the capacity
\* is at least length + 4, the push does not reallocate and the length
\* grows by the UTF-8 length of ch.  String::try_push_str(s) reserves
\* s.len() bytes first, so its append does not reallocate either
C30_PushReservesFirst ==
    [][/\ tlast'.op = "try_push" =>
            /\ Room >= SizeOfChar =>
                 (tlast'.res = "Ok" /\ tlast'.allocs = 0 /\ txt'.cap = txt.cap)
            /\ Room < SizeOfChar =>
                 (tlast'.allocs = 1 \/ tlast'.res = "CapacityOverflow")
            /\ tlast'.res # "Ok" =>
                 (txt' = txt /\ tlast'.res \in AllocFailures)
            /\ tlast'.res = "Ok" =>
                 /\ txt'.cap >= Len(txt.data) + SizeOfChar
                 /\ ~tlast'.abort
                 /\ txt'.data = txt.data \o tlast'.arg
                 /\ Len(tlast'.arg) \in 1..SizeOfChar
       /\ tlast'.op = "try_push_str" =>
            /\ Room >= Len(tlast'.arg) =>
                 (tlast'.res = "Ok" /\ tlast'.allocs = 0 /\ txt'.cap = txt.cap)
            /\ tlast'.res # "Ok" =>
                 (txt' = txt /\ tlast'.res \in AllocFailures)
            /\ tlast'.res = "Ok" =>
                 /\ txt'.cap >= Len(txt.data) + Len(tlast'.arg)
                 /\ ~tlast'.abort
                 /\ txt'.data = txt.data \o tlast'.arg]_vars

\* try_push of a char failed on a String that had room for its encoding
\* but not for four bytes, and left the String as it was
C30_Witness ==
    /\ tlast.op = "try_push"
    /\ tlast.res = "AllocError"
    /\ Len(tlast.arg) >= 1
    /\ Room >= Len(tlast.arg)
    /\ Room < SizeOfChar
    /\ txt.data = tlast.pre
    /\ Len(txt.data) > 0

====
